---- MODULE Spec2Model ----
(***************************************************************************)
(* The document mutation engine of the Fluxx form editor extension:        *)
(* applyOperations (src/content/fluxx-bridge.js) run on one export, one    *)
(* operation of the batch per step.                                        *)
(*                                                                         *)
(* JavaScript values are written as strings: "true"/"false" for booleans,  *)
(* "undefined" for a missing value.  String-keyed objects (config,         *)
(* styling, visibility, the alias table) are functions whose DOMAIN is the *)
(* set of keys present.  A node without an `elements` key is written with  *)
(* elements = <<>>: every read of `elements` in the engine treats a        *)
(* missing list and an empty list alike.  HTML text and labels are         *)
(* sequences of tokens.  Registry timestamps are left out.                 *)
(***************************************************************************)
EXTENDS Integers, Sequences, FiniteSets, TLC

\* Longest batch explored.
MaxOps == 2
\* Longest batch of the operations that register and use aliases.
MaxAliasOps == 3
\* Longest batch of each of two calls in a row.
MaxCallOps == 2
\* Most downloads of the content script in flight at a time.
MaxFetches == 2
\* side panel: chat and document requests started, messages awaiting a response
MaxRequests == 3
MaxQueries == 1
\* import: APPLY_OPERATIONS messages sent, turns of a waiting loop before its time is up
MaxApplies == 2
MaxPolls == 1
\* Longest batch of two runs side by side.
MaxRunOps == 3
\* Longest chain of recolourings from family to family.
MaxRecolors == 2
\* Longest text, in tokens, and longest batch of the colour rewrites.
MaxTextLen == 2
MaxRewrites == 2

Undefined == "undefined"
EmptyMap == [k \in {} |-> Undefined]

Truthy(v) == v # Undefined /\ v # "" /\ v # "false"
Not(v) == IF Truthy(v) THEN "false" ELSE "true"

HasKey(m, k) == k \in DOMAIN m
Get(m, k) == IF k \in DOMAIN m THEN m[k] ELSE Undefined
\* obj[key] = value
Put(m, k, v) == (k :> v) @@ m
\* for (const [key, value] of Object.entries(patch)) obj[key] = value
Merge(m, patch) == patch @@ m

Max2(a, b) == IF a > b THEN a ELSE b
Min2(a, b) == IF a < b THEN a ELSE b

\* Array.prototype.splice(start, deleteCount, ...items), start counted from 0;
\* a negative start counts from the end.
Splice(arr, start, deleteCount, items) ==
  LET s == IF start < 0 THEN Max2(Len(arr) + start, 0) ELSE Min2(start, Len(arr))
      d == Min2(deleteCount, Len(arr) - s)
  IN  SubSeq(arr, 1, s) \o items \o SubSeq(arr, s + d + 1, Len(arr))

\* Array.prototype.findIndex(e => e.uid === uid), counted from 0, -1 if absent.
RECURSIVE FindIndexFrom(_, _, _)
FindIndexFrom(arr, uid, i) ==
  IF i > Len(arr) THEN -1
  ELSE IF arr[i].uid = uid THEN i - 1
  ELSE FindIndexFrom(arr, uid, i + 1)

findIndex(arr, uid) == FindIndexFrom(arr, uid, 1)

(***************************************************************************)
(* Locator.  A node is addressed by the path of 1-based positions leading  *)
(* to it from the top-level list; the reference the JavaScript functions   *)
(* return is that path, and an in-place change is a change at the path.    *)
(***************************************************************************)

\* Depth-first, first match wins; <<>> when no node has the identifier.
RECURSIVE PathFrom(_, _, _)
PathFrom(elements, uid, i) ==
  IF i > Len(elements) THEN <<>>
  ELSE IF elements[i].uid = uid THEN <<i>>
  ELSE LET found == PathFrom(elements[i].elements, uid, 1)
       IN  IF found # <<>> THEN <<i>> \o found
           ELSE PathFrom(elements, uid, i + 1)

RECURSIVE ListAt(_, _)
ListAt(elements, path) ==
  IF path = <<>> THEN elements
  ELSE ListAt(elements[Head(path)].elements, Tail(path))

RECURSIVE SetListAt(_, _, _)
SetListAt(elements, path, list) ==
  IF path = <<>> THEN list
  ELSE [elements EXCEPT ![Head(path)].elements = SetListAt(@, Tail(path), list)]

Front(path) == SubSeq(path, 1, Len(path) - 1)
Last(path) == path[Len(path)]

NodeAt(elements, path) == ListAt(elements, Front(path))[Last(path)]
SetNodeAt(elements, path, node) ==
  SetListAt(elements, Front(path),
            [ListAt(elements, Front(path)) EXCEPT ![Last(path)] = node])

\* null is found = FALSE; otherwise the node is NodeAt(elements, path).
findElementByUid(elements, uid) ==
  LET p == PathFrom(elements, uid, 1)
  IN  [found |-> p # <<>>, path |-> p]

\* null is found = FALSE; otherwise `array` is ListAt(elements, array) and
\* index is counted from 0.
findParentOf(elements, uid) ==
  LET p == PathFrom(elements, uid, 1)
  IN  IF p = <<>> THEN [found |-> FALSE, array |-> <<>>, index |-> -1]
      ELSE [found |-> TRUE, array |-> Front(p), index |-> Last(p) - 1]

(***************************************************************************)
(* Text.  A label is a sequence of words.  An HTML text is a sequence of   *)
(* tokens [k, ctx, v, r, g, b]: k = "hex" a six-digit hex colour literal   *)
(* with its channel values, k = "hex3" a three-digit hex literal with its  *)
(* three digits, k = "rgb" / "rgba" a functional colour with its           *)
(* channel values (v the alpha part of rgba), k = "word" any other word v; *)
(* ctx = "decl" when the token directly follows a color /                  *)
(* background-color / border-color property name, "plain" otherwise.       *)
(***************************************************************************)

Word(ctx, v) == [k |-> "word", ctx |-> ctx, v |-> v, r |-> 0, g |-> 0, b |-> 0]
Hex(ctx, r, g, b) == [k |-> "hex", ctx |-> ctx, v |-> "", r |-> r, g |-> g, b |-> b]
Hex3(ctx, d1, d2, d3) == [k |-> "hex3", ctx |-> ctx, v |-> "", r |-> d1, g |-> d2, b |-> d3]
Rgb(ctx, r, g, b) == [k |-> "rgb", ctx |-> ctx, v |-> "", r |-> r, g |-> g, b |-> b]
Rgba(ctx, r, g, b, rest) == [k |-> "rgba", ctx |-> ctx, v |-> rest, r |-> r, g |-> g, b |-> b]

\* The words of the model that contain upper-case letters, with their
\* lower-case forms.
UpperWords ==
  [RED |-> "red", Red |-> "red", SECTION |-> "section", Section |-> "section",
   HELLO |-> "hello", Hello |-> "hello", Hi |-> "hi", Bye |-> "bye", Good |-> "good",
   Inner |-> "inner", Renamed |-> "renamed", Top |-> "top", New |-> "new",
   Fields |-> "fields", Extra |-> "extra", Amount |-> "amount", Notes |-> "notes",
   Budget |-> "budget", A |-> "a", B |-> "b", C |-> "c"]
  @@ ("(Year" :> "(year")
\* String.prototype.toLowerCase(), and the comparison key of a word under a
\* regular expression's i flag.
Lower(w) == IF w \in DOMAIN UpperWords THEN UpperWords[w] ELSE w
FoldCase(w) == Lower(w)

MapSeq(seq, Op(_)) == [i \in 1..Len(seq) |-> Op(seq[i])]
TokenKey(t) == IF t.k = "word" THEN [t EXCEPT !.v = FoldCase(t.v), !.ctx = "plain"]
               ELSE [t EXCEPT !.ctx = "plain"]

\* String.prototype.replace(new RegExp(escaped find, 'gi'), repl): every
\* non-overlapping occurrence, left to right; keys are the case-folded items.
RECURSIVE ReplaceAllFrom(_, _, _, _, _)
ReplaceAllFrom(seq, keys, find, repl, i) ==
  IF i > Len(seq) THEN <<>>
  ELSE IF find # <<>> /\ i + Len(find) - 1 <= Len(seq)
          /\ SubSeq(keys, i, i + Len(find) - 1) = find
       THEN repl \o ReplaceAllFrom(seq, keys, find, repl, i + Len(find))
       ELSE <<seq[i]>> \o ReplaceAllFrom(seq, keys, find, repl, i + 1)

ReplaceLabel(label, find, repl) ==
  ReplaceAllFrom(label, MapSeq(label, FoldCase), MapSeq(find, FoldCase), repl, 1)

ReplaceText(text, find, repl) ==
  ReplaceAllFrom(text, MapSeq(text, TokenKey), MapSeq(find, TokenKey), repl, 1)

(***************************************************************************)
(* Colour-family matcher.                                                  *)
(***************************************************************************)

Max3(a, b, c) == Max2(a, Max2(b, c))
Min3(a, b, c) == Min2(a, Min2(b, c))

\* The comparisons against r * 1.5 and the like are written on integers
\* (both sides times 10, or times 3 for the brightness mean); on channel
\* values 0..255 they agree with the floating-point comparisons.
isRgbInFamily(r, g, b, family) ==
  LET sum == r + g + b
      max == Max3(r, g, b)
      min == Min3(r, g, b)
      satBelow(tenths) == max = 0 \/ 10 * (max - min) < tenths * max
  IN  CASE family = "red" -> r > 150 /\ 10 * r > 15 * g /\ 10 * r > 12 * b /\ g < 150
        [] family = "blue" -> b > 150 /\ 10 * b > 13 * r /\ 10 * b > 11 * g
        [] family = "green" -> g > 150 /\ 10 * g > 12 * r /\ 10 * g > 12 * b
        [] family = "orange" -> r > 180 /\ g > 80 /\ g < 180 /\ b < 100
        [] family = "yellow" -> r > 180 /\ g > 180 /\ b < 120
        [] family = "purple" -> r > 100 /\ b > 100 /\ 10 * g < 8 * Min2(r, b)
        [] family = "gray" -> satBelow(2) /\ sum > 150 /\ sum < 660
        [] family = "black" -> sum < 150
        [] family = "white" -> sum > 660 /\ satBelow(1)
        [] OTHER -> FALSE

\* A six-digit hex token carries the channel values parseInt reads from its
\* digit pairs; each digit of a three-digit one is doubled: parseInt(d + d, 16).
isColorInFamily(hex, family) ==
  IF hex.k = "hex3" THEN isRgbInFamily(17 * hex.r, 17 * hex.g, 17 * hex.b, family)
  ELSE isRgbInFamily(hex.r, hex.g, hex.b, family)

TargetColors ==
  [red |-> Hex("plain", 204, 0, 0), blue |-> Hex("plain", 0, 102, 204),
   green |-> Hex("plain", 0, 136, 0), orange |-> Hex("plain", 255, 102, 0),
   yellow |-> Hex("plain", 255, 204, 0), purple |-> Hex("plain", 153, 0, 204),
   gray |-> Hex("plain", 102, 102, 102), black |-> Hex("plain", 0, 0, 0),
   white |-> Hex("plain", 255, 255, 255)]

\* colorName is a token: a hex literal is used as it is, a family name gives
\* the family's hex, any other word is used as it is.
getTargetColor(colorName) ==
  IF colorName.k \in {"hex", "hex3"} THEN colorName
  ELSE IF Lower(colorName.v) \in DOMAIN TargetColors THEN TargetColors[Lower(colorName.v)]
  ELSE colorName

ReplaceKeywords ==
  [red |-> {"red", "crimson", "darkred", "firebrick", "indianred", "maroon"},
   blue |-> {"blue", "navy", "darkblue", "royalblue", "steelblue", "dodgerblue"},
   green |-> {"green", "darkgreen", "forestgreen", "limegreen", "seagreen"},
   orange |-> {"orange", "darkorange", "coral", "tomato"},
   yellow |-> {"yellow", "gold", "khaki"},
   purple |-> {"purple", "violet", "magenta", "fuchsia"},
   gray |-> {"gray", "grey", "darkgray", "lightgray", "silver"}]

\* The rgb()/rgba() text built from a three-digit target "#abc": slice(1, 3)
\* reads "ab", slice(3, 5) reads "c" and slice(5, 7) reads "", whose parseInt
\* is NaN.  The result is no rgb()/rgba() literal any more: its third channel
\* is not a number.
SlicedShortHex(t, target) ==
  Word(t.ctx,
       (IF t.k = "rgba" THEN "rgba(" ELSE "rgb(")
       \o ToString(16 * target.r + target.g) \o ", " \o ToString(target.b) \o ", NaN"
       \o (IF t.k = "rgba" THEN t.v ELSE "") \o ")")

\* The three passes of replaceColorsInHtml on one token: hex literals, then
\* rgb()/rgba(), then keywords that follow a colour property name.
replaceColorsInToken(t, findColor, replaceColor) ==
  LET targetColor == getTargetColor(replaceColor)
      at(x) == [x EXCEPT !.ctx = t.ctx]
      afterHex == IF t.k \in {"hex", "hex3"} /\ isColorInFamily(t, findColor)
                  THEN at(targetColor) ELSE t
      afterRgb == IF afterHex.k \in {"rgb", "rgba"}
                     /\ isRgbInFamily(afterHex.r, afterHex.g, afterHex.b, findColor)
                  THEN IF targetColor.k = "hex"
                       THEN [afterHex EXCEPT !.r = targetColor.r, !.g = targetColor.g,
                                             !.b = targetColor.b]
                       ELSE IF targetColor.k = "hex3"
                       THEN SlicedShortHex(afterHex, targetColor)
                       ELSE at(targetColor)
                  ELSE afterHex
  IN  IF findColor \in DOMAIN ReplaceKeywords /\ afterRgb.k = "word"
         /\ afterRgb.ctx = "decl" /\ FoldCase(afterRgb.v) \in ReplaceKeywords[findColor]
      THEN at(targetColor) ELSE afterRgb

\* As replaceColorsInHtml, writing the target in front of a keyword of the
\* family instead of in its place.
replaceColorsInHtml_keepsKeyword(html, findColor, replaceColor) ==
  IF html # <<>> /\ findColor \in DOMAIN ReplaceKeywords
     /\ html[Len(html)].k = "word" /\ html[Len(html)].ctx = "decl"
     /\ FoldCase(html[Len(html)].v) \in ReplaceKeywords[findColor]
  THEN <<[getTargetColor(replaceColor) EXCEPT !.ctx = "decl"]>> \o html
  ELSE html

replaceColorsInHtml(html, findColor, replaceColor) ==
  [i \in 1..Len(html) |-> replaceColorsInToken(html[i], findColor, replaceColor)]

(***************************************************************************)
(* Element factory and attribute registry.  generateUid() is the argument  *)
(* uid: the caller draws it from the counter nextUid.                      *)
(***************************************************************************)

Uid(n) == "u" \o ToString(n)

DefaultVisibility ==
  [visible_form |-> "true", visible_show |-> "true", advanced_filter |-> "1",
   advanced_query |-> "{...}", advanced_sort |-> "[]"]

\* if (conditional.field) config.reveal_if_attribute = conditional.field, ...
ApplyConditional(config, conditional) ==
  LET c1 == IF Truthy(Get(conditional, "field"))
            THEN Put(config, "reveal_if_attribute", conditional.field) ELSE config
      c2 == IF Truthy(Get(conditional, "values"))
            THEN Put(c1, "reveal_if_value", conditional.values) ELSE c1
  IN  IF Truthy(Get(conditional, "type"))
      THEN Put(c2, "reveal_if_type", conditional.type) ELSE c2

createGroupElement(label, options, uid) ==
  [element_type |-> "group", name |-> "group",
   config |-> ApplyConditional(
                Merge([label |-> label, show_in_toc |-> "0", hide_label |-> "0",
                       collapsible |-> "0", default_open |-> "0",
                       disable_lazy_load |-> "0", reveal_if_type |-> "show"],
                      options.config),
                options.conditional),
   visibility |-> Merge(DefaultVisibility, options.visibility),
   styling |-> Merge([alignment |-> "left"], options.styling),
   uid |-> uid, label |-> label, elements |-> <<>>]

\* As createTextElement, with the identifier as the name of the node.
createTextElement_namedByUid(html, options, uid) ==
  [element_type |-> "text", name |-> uid,
   config |-> [text |-> html, strip_html |-> "0", allow_script |-> "0"],
   visibility |-> Merge(DefaultVisibility, options.visibility),
   styling |-> Merge([alignment |-> "left"], options.styling),
   uid |-> uid, elements |-> <<>>]

createTextElement(html, options, uid) ==
  [element_type |-> "text", name |-> "text",
   config |-> [text |-> html, strip_html |-> "0", allow_script |-> "0"],
   visibility |-> Merge(DefaultVisibility, options.visibility),
   styling |-> Merge([alignment |-> "left"], options.styling),
   uid |-> uid, elements |-> <<>>]

createAttributeElement(fieldName, label, options, uid) ==
  [element_type |-> "attribute", name |-> fieldName,
   config |-> Merge([label |-> label,
                     required |-> IF Truthy(Get(options, "required"))
                                  THEN options.required ELSE "false"],
                    options.config),
   visibility |-> Merge(DefaultVisibility, options.visibility),
   styling |-> [alignment |-> "left"],
   uid |-> uid, label |-> label, elements |-> <<>>]

createModelAttribute(name, description, attributeType) ==
  [name |-> name, description |-> IF Truthy(description) THEN description ELSE name,
   model_type |-> "GrantRequest", attribute_type |-> attributeType,
   multi_allowed |-> "false"]

\* As HasAttribute, never finding the entry.
HasAttribute_never(modelAttrs, name) == FALSE

\* modelAttrs.find(a => a.name === name) is not undefined
HasAttribute(modelAttrs, name) == \E i \in 1..Len(modelAttrs) : modelAttrs[i].name = name

\* As EnsureAttribute, with the new entry taking the place of the registry.
EnsureAttribute_replaceAll(modelAttrs, name, attributeType) ==
  IF HasAttribute(modelAttrs, name) THEN modelAttrs
  ELSE <<createModelAttribute(name, name, attributeType)>>

\* if (!modelAttrs.find(...)) modelAttrs.push(createModelAttribute(name, name, type))
EnsureAttribute(modelAttrs, name, attributeType) ==
  IF HasAttribute(modelAttrs, name) THEN modelAttrs
  ELSE Append(modelAttrs, createModelAttribute(name, name, attributeType))

NoOptions == [config |-> EmptyMap, styling |-> EmptyMap, visibility |-> EmptyMap,
              conditional |-> EmptyMap]

(***************************************************************************)
(* Measures of a tree, used to state the properties.                       *)
(***************************************************************************)

RECURSIVE UidsOfList(_)
UidsOfList(list) ==
  IF list = <<>> THEN <<>>
  ELSE <<Head(list).uid>> \o UidsOfList(Head(list).elements) \o UidsOfList(Tail(list))

\* The identifiers of a forest in document order, with repetitions.
UidSeq(elements) == UidsOfList(elements)
UidSet(elements) == {UidSeq(elements)[i] : i \in 1..Len(UidSeq(elements))}
NodeCount(elements) == Len(UidSeq(elements))
UidsDistinct(elements) == Cardinality(UidSet(elements)) = NodeCount(elements)

RECURSIVE NodesOfList(_)
NodesOfList(list) ==
  IF list = <<>> THEN <<>>
  ELSE <<Head(list)>> \o NodesOfList(Head(list).elements) \o NodesOfList(Tail(list))

\* Every node of a forest, in document order.
Nodes(elements) == NodesOfList(elements)
NodeSet(elements) == {Nodes(elements)[i] : i \in 1..Len(Nodes(elements))}

RegistryNames(modelAttrs) == {modelAttrs[i].name : i \in 1..Len(modelAttrs)}

(***************************************************************************)
(* State of one call applyOperations(exportData, operations).              *)
(*                                                                         *)
(* heap holds the objects that can be reached by reference: the caller's   *)
(* document "exportData", the working document the call builds, the        *)
(* structure object of the current replace_subtree operation and the copy  *)
(* the operation works on.  dataRef names the object the local `data`      *)
(* refers to.  A document is [elements, ModelAttribute].                   *)
(* lastOp is the operation of the last iteration and `before` the working   *)
(* document and alias table it started from; prevOp and prevBefore are the *)
(* same for the iteration before that.                                     *)
(***************************************************************************)
VARIABLES heap, dataRef, aliases, nextUid, pc, nOps, lastOp, before, prevOp, prevBefore,
          ext

vars == <<heap, dataRef, aliases, nextUid, pc, nOps, lastOp, before, prevOp, prevBefore,
          ext>>

\* ext is the extension around the engine: the globals of the content script
\* and of the side panel, and the messages and requests in flight.  The engine
\* does not read or write it.
NoExtension == [unused |-> TRUE]

NoObject == [uid |-> Undefined]
NoOp == [type |-> "none"]
NoSnapshot == [elements |-> <<>>, ModelAttribute |-> <<>>, aliases |-> EmptyMap]

WithChildren(node, children) == [node EXCEPT !.elements = children]

\* The export the caller hands in: identifiers pairwise distinct, only groups
\* have children, every field reference has its registry entry.
InputElements ==
  << WithChildren(createGroupElement(<<"Section", "1">>, NoOptions, "u1"),
       << createTextElement(<<Word("plain", "Hello"), Word("plain", "red"),
                              Hex("decl", 204, 0, 0), Rgb("decl", 200, 0, 0),
                              Word("decl", "red")>>, NoOptions, "u2"),
          WithChildren(createGroupElement(<<"Inner">>, NoOptions, "u3"),
            << createAttributeElement("amount", <<"Amount">>, NoOptions, "u4") >>) >>),
     createAttributeElement("notes", <<"Notes">>, NoOptions, "u5") >>

InputDocument ==
  [elements |-> InputElements,
   ModelAttribute |-> << createModelAttribute("amount", "amount", "string"),
                         createModelAttribute("notes", "notes", "string") >>]

\* The first identifier generateUid() has not handed out yet.
FirstFreshUid == NodeCount(InputElements) + 1

Init ==
  /\ heap = [exportData |-> InputDocument, data |-> NoObject,
             structure |-> NoObject, newStructure |-> NoObject]
  /\ dataRef = "none"
  /\ aliases = EmptyMap
  /\ nextUid = FirstFreshUid
  /\ pc = "call"
  /\ nOps = 0
  /\ lastOp = NoOp
  /\ before = NoSnapshot
  /\ prevOp = NoOp
  /\ prevBefore = NoSnapshot
  /\ ext = NoExtension

data == heap[dataRef]
elements == data.elements
modelAttrs == data.ModelAttribute

\* JSON.parse(JSON.stringify(obj)): a new object graph with the same content,
\* stored as object `into`; the result refers to it.
\* As JsonClone, without the copy: the result is the object itself.
JsonClone_sameObject(h, obj, into) == [ref |-> obj, heap |-> h]

JsonClone(h, obj, into) == [ref |-> into, heap |-> [h EXCEPT ![into] = h[obj]]]

(***************************************************************************)
(* applyOperations: entry and exit.                                        *)
(***************************************************************************)

\* if (!Array.isArray(operations)) throw new Error('Operations must be an array')
CallNotArray ==
  /\ pc = "call"
  /\ pc' = "thrown"
  /\ lastOp' = [type |-> "not_an_array"]
  /\ UNCHANGED <<heap, dataRef, aliases, nextUid, nOps, before, prevOp, prevBefore, ext>>

\* As NewAliasTable, with the table kept from the call before.
NewAliasTable_kept(al) == al

\* const aliases = {}: the table of a call is a new object, whatever table the
\* call before it ended with.
NewAliasTable(al) == EmptyMap

\* const data = JSON.parse(JSON.stringify(exportData)); const aliases = {}
Call ==
  /\ pc = "call"
  /\ LET c == JsonClone(heap, "exportData", "data")
     IN  /\ heap' = c.heap
         /\ dataRef' = c.ref
  /\ aliases' = NewAliasTable(aliases)
  /\ pc' = "loop"
  /\ UNCHANGED <<nextUid, nOps, lastOp, before, prevOp, prevBefore, ext>>

\* The loop is over: return data.
Return ==
  /\ pc = "loop"
  /\ pc' = "done"
  /\ UNCHANGED <<heap, dataRef, aliases, nextUid, nOps, lastOp, before, prevOp, prevBefore,
                 ext>>

(***************************************************************************)
(* The loop prologue: the operation's target reference.                    *)
(***************************************************************************)

DollarRefs == [root |-> "$root", g1 |-> "$g1", x |-> "$x"]
\* s.startsWith('$')
StartsWithDollar(s) == \E a \in DOMAIN DollarRefs : DollarRefs[a] = s
\* s.slice(1)
Slice1(s) == CHOOSE a \in DOMAIN DollarRefs : DollarRefs[a] = s

\* a || b || c
Or3(a, b, c) == IF Truthy(a) THEN a ELSE IF Truthy(b) THEN b ELSE c

RawTarget(op) == Or3(Get(op, "after_uid"), Get(op, "uid"), Get(op, "target"))
IsRoot(op) == RawTarget(op) = "$root"
\* As TargetUid, without the look-up in the alias table.
TargetUid_noAliases(al, op) == RawTarget(op)

\* let targetUid = ...; if (targetUid && targetUid.startsWith('$') && !isRoot)
\*   targetUid = aliases[targetUid.slice(1)]
TargetUid(al, op) ==
  IF Truthy(RawTarget(op)) /\ StartsWithDollar(RawTarget(op)) /\ ~IsRoot(op)
  THEN Get(al, Slice1(RawTarget(op)))
  ELSE RawTarget(op)

\* One iteration of the loop: the working document, the alias table and the
\* identifier counter after the operation.
Outcome(els, attrs, al, next) ==
  [elements |-> els, ModelAttribute |-> attrs, aliases |-> al, nextUid |-> next]

\* As Throws, and dereferencing an alias that is not registered throws too.
Throws_unregisteredAlias(op) ==
  \/ op = [null |-> "true"]
  \/ Truthy(RawTarget(op)) /\ RawTarget(op) \in {"42"}
  \/ Get(op, "type") = "move" /\ Get(op, "target") \in {"42"}
  \/ RawTarget(op) = "$x"

\* Reading a property of null, and calling startsWith on a truthy reference
\* that is not a string, throw a TypeError.
NullOp == [null |-> "true"]
NonStrings == {"42"}
Throws(op) ==
  \/ op = NullOp
  \/ Truthy(RawTarget(op)) /\ RawTarget(op) \in NonStrings
  \/ Get(op, "type") = "move" /\ Get(op, "target") \in NonStrings

\* The bookkeeping of an iteration.
Record(op) ==
  /\ nOps' = nOps + 1
  /\ lastOp' = op
  /\ before' = [elements |-> elements, ModelAttribute |-> modelAttrs,
                aliases |-> aliases]
  /\ prevOp' = lastOp
  /\ prevBefore' = before

\* h is the heap after the operation's writes to objects other than `data`;
\* max is the length of the longest batch.
IterateWithin(op, out, h, max) ==
  /\ pc = "loop"
  /\ nOps < max
  /\ ~Throws(op)
  /\ heap' = [h EXCEPT ![dataRef] =
                [elements |-> out.elements, ModelAttribute |-> out.ModelAttribute]]
  /\ aliases' = out.aliases
  /\ nextUid' = out.nextUid
  /\ Record(op)
  /\ UNCHANGED <<dataRef, pc, ext>>

Iterate(op, out, h) == IterateWithin(op, out, h, MaxOps)

(***************************************************************************)
(* add                                                                     *)
(***************************************************************************)

Push(arr, el) == Append(arr, el)
\* As Unshift, putting the element at the end.
Unshift_atEnd(arr, el) == Append(arr, el)

Unshift(arr, el) == <<el>> \o arr

\* target.elements.push / unshift at the node findElementByUid returned
InsertInside(els, target, el, atStart) ==
  IF ~target.found THEN els
  ELSE SetListAt(els, target.path,
                 IF atStart THEN Unshift(ListAt(els, target.path), el)
                 ELSE Push(ListAt(els, target.path), el))

\* As InsertBeside, without the splice: the list is left as it was.
InsertBeside_noInsert(els, uid, el, position) == els

\* As InsertBeside, with the position "before" read as any other position.
InsertBeside_alwaysAfter(els, uid, el, position) ==
  LET result == findParentOf(els, uid)
      array == ListAt(els, result.array)
  IN  IF ~result.found THEN els
      ELSE SetListAt(els, result.array, Splice(array, findIndex(array, uid) + 1, 0, <<el>>))

\* result.array.splice(insertIdx, 0, el) next to the node with the identifier
InsertBeside(els, uid, el, position) ==
  LET result == findParentOf(els, uid)
      array == ListAt(els, result.array)
      idx == findIndex(array, uid)
      insertIdx == IF position = "before" THEN idx ELSE idx + 1
  IN  IF ~result.found THEN els
      ELSE SetListAt(els, result.array, Splice(array, insertIdx, 0, <<el>>))

AddPlace(els, op, targetUid, newElement) ==
  IF IsRoot(op)
  THEN IF Get(op, "position") = "inside" THEN Push(els, newElement)
       ELSE IF Get(op, "position") = "before" THEN Unshift(els, newElement)
       ELSE Push(els, newElement)
  ELSE IF Get(op, "position") \in {"inside", "inside_end"}
  THEN InsertInside(els, findElementByUid(els, targetUid), newElement, FALSE)
  ELSE IF Get(op, "position") \in {"inside_start", "inside_top"}
  THEN InsertInside(els, findElementByUid(els, targetUid), newElement, TRUE)
  ELSE InsertBeside(els, targetUid, newElement, Get(op, "position"))

applyAdd(els, attrs, al, next, op) ==
  LET targetUid == TargetUid(al, op)
      uid == Uid(next)
      built == op.element_type \in {"group", "text", "field"}
      newElement ==
        CASE op.element_type = "group" ->
               createGroupElement(op.label,
                 [config |-> op.config, styling |-> op.styling,
                  visibility |-> op.visibility, conditional |-> op.conditional], uid)
          [] op.element_type = "text" ->
               createTextElement(op.content,
                 [styling |-> op.styling, visibility |-> op.visibility], uid)
          [] op.element_type = "field" ->
               createAttributeElement(op.field_name, op.label,
                 [config |-> EmptyMap, visibility |-> EmptyMap], uid)
          [] OTHER -> NoObject
      attrs1 == IF op.element_type = "field"
                THEN EnsureAttribute(attrs, op.field_name,
                       IF Truthy(op.field_type) THEN op.field_type ELSE "string")
                ELSE attrs
      al1 == IF Truthy(op.alias) THEN Put(al, op.alias, uid) ELSE al
  IN  IF ~built THEN Outcome(els, attrs, al, next)
      ELSE Outcome(AddPlace(els, op, targetUid, newElement), attrs1, al1, next + 1)

\* The anchors and positions the add operations of the model use.
AddPlaces ==
  {<<"$root", Undefined>>, <<"$root", "before">>, <<"$root", "inside">>,
   <<"$g1", "inside">>, <<"$g1", "inside_start">>, <<"$g1", "before">>,
   <<"u2", "inside">>, <<"u2", Undefined>>, <<"u3", "inside_start">>,
   <<"u3", "before">>, <<"u0", Undefined>>, <<"$x", "inside">>,
   <<"u3", "inside_end">>, <<"u3", "inside_top">>, <<"u4", "bottom">>}

AddOp(elementType, label, content, fieldName, alias, anchor, position) ==
  [type |-> "add", element_type |-> elementType, label |-> label, content |-> content,
   field_name |-> fieldName, field_type |-> Undefined, alias |-> alias,
   after_uid |-> anchor, position |-> position,
   config |-> IF elementType = "group" THEN [collapsible |-> "1"] ELSE EmptyMap,
   styling |-> [margin_top |-> "10"], visibility |-> [visible_show |-> "false"],
   conditional |-> IF elementType = "group" THEN [field |-> "amount", values |-> "yes"]
                   ELSE EmptyMap]

AddOps ==
  UNION {{AddOp("group", <<"Section", "A">>, <<>>, Undefined, "g1", a, p),
          AddOp("text", <<>>, <<Word("plain", "Hello")>>, Undefined, Undefined, a, p),
          AddOp("field", <<"Budget">>, <<>>, "budget", Undefined, a, p)}
         : <<a, p>> \in AddPlaces}
  \cup {AddOp("image", <<>>, <<>>, Undefined, Undefined, "u2", Undefined)}

Add ==
  \E op \in AddOps : Iterate(op, applyAdd(elements, modelAttrs, aliases, nextUid, op), heap)

(***************************************************************************)
(* edit                                                                    *)
(***************************************************************************)

\* if (patch.k !== undefined) m.k = patch.k, for each k of keys
CopyDefined(m, patch, keys) ==
  LET set == {k \in keys \cap DOMAIN patch : patch[k] # Undefined}
  IN  [k \in DOMAIN m \cup set |-> IF k \in set THEN patch[k] ELSE m[k]]

EditConfigKeys == {"show_in_toc", "hide_label", "collapsible", "default_open", "open_states"}
EditVisibilityKeys == {"visible_form", "visible_show", "visible_list", "show_states",
                       "read_only_states", "user_profile"}
spacingProps == {"margin_top", "margin_bottom", "margin_left", "margin_right",
                 "padding_top", "padding_bottom", "padding_left", "padding_right",
                 "alignment"}

\* As EditStyling, dropping the whole patch of a node that is no group when
\* one of its keys is not allowed.
EditStyling_allOrNothing(el, styling) ==
  IF el.element_type = "group" \/ DOMAIN styling \subseteq spacingProps
  THEN styling @@ el.styling
  ELSE el.styling

\* for (const [key, value] of Object.entries(op.styling)) with the allow-list
EditStyling(el, styling) ==
  LET set == {k \in DOMAIN styling : el.element_type = "group" \/ k \in spacingProps}
  IN  [k \in DOMAIN el.styling \cup set |-> IF k \in set THEN styling[k] ELSE el.styling[k]]

\* As EditElement, writing the content to a node of any variant.
EditElement_contentAnywhere(el, op) ==
  LET c1 == IF op.label # <<>> THEN Put(el.config, "label", op.label) ELSE el.config
      c2 == IF op.required # Undefined THEN Put(c1, "required", op.required) ELSE c1
      c3 == IF op.read_only # Undefined THEN Put(c2, "read_only", op.read_only) ELSE c2
      c4 == IF op.content # <<>> THEN Put(c3, "text", op.content) ELSE c3
      c5 == CopyDefined(c4, op.config, EditConfigKeys)
      c6 == ApplyConditional(c5, op.conditional)
      el1 == IF op.label # <<>> /\ HasKey(el, "label")
             THEN [el EXCEPT !.label = op.label] ELSE el
  IN  [el1 EXCEPT !.config = c6,
                  !.styling = EditStyling(el, op.styling),
                  !.visibility = CopyDefined(el.visibility, op.visibility,
                                             EditVisibilityKeys)]

EditElement(el, op) ==
  LET c1 == IF op.label # <<>> THEN Put(el.config, "label", op.label) ELSE el.config
      c2 == IF op.required # Undefined THEN Put(c1, "required", op.required) ELSE c1
      c3 == IF op.read_only # Undefined THEN Put(c2, "read_only", op.read_only) ELSE c2
      c4 == IF op.content # <<>> /\ el.element_type = "text"
            THEN Put(c3, "text", op.content) ELSE c3
      c5 == CopyDefined(c4, op.config, EditConfigKeys)
      c6 == ApplyConditional(c5, op.conditional)
      el1 == IF op.label # <<>> /\ HasKey(el, "label")
             THEN [el EXCEPT !.label = op.label] ELSE el
  IN  [el1 EXCEPT !.config = c6,
                  !.styling = EditStyling(el, op.styling),
                  !.visibility = CopyDefined(el.visibility, op.visibility,
                                             EditVisibilityKeys)]

\* As applyEdit, taking the node out of its list and pushing the edited node
\* to the end of the list.
applyEdit_reinsertsAtEnd(els, attrs, al, next, op) ==
  LET el == findElementByUid(els, TargetUid(al, op))
      list == ListAt(els, Front(el.path))
  IN  IF ~el.found THEN Outcome(els, attrs, al, next)
      ELSE Outcome(SetListAt(els, Front(el.path),
                             Push(Splice(list, Last(el.path) - 1, 1, <<>>),
                                  EditElement(NodeAt(els, el.path), op))),
                   attrs, al, next)

applyEdit(els, attrs, al, next, op) ==
  LET el == findElementByUid(els, TargetUid(al, op))
  IN  IF ~el.found THEN Outcome(els, attrs, al, next)
      ELSE Outcome(SetNodeAt(els, el.path, EditElement(NodeAt(els, el.path), op)),
                   attrs, al, next)

EditOp(uid, label, content, required, config, conditional, styling, visibility) ==
  [type |-> "edit", uid |-> uid, label |-> label, content |-> content,
   required |-> required, read_only |-> required, config |-> config,
   conditional |-> conditional, styling |-> styling, visibility |-> visibility]

EditTargets == {"u1", "u2", "u4", "$g1", "u0"}

EditOps ==
  UNION {{EditOp(t, <<"Renamed">>, <<Word("plain", "Bye")>>, Undefined,
                 [hide_label |-> "true", disable_lazy_load |-> "1"], EmptyMap,
                 [margin_top |-> "5", background_color |-> "#fff"], EmptyMap),
          EditOp(t, <<>>, <<>>, "true", EmptyMap,
                 [field |-> "amount", values |-> "yes", type |-> "hide"], EmptyMap,
                 [visible_form |-> "false", advanced_filter |-> "0"]),
          EditOp(t, <<"Renamed">>, <<Word("plain", "Bye")>>, "false",
                 [collapsible |-> "1"], EmptyMap, EmptyMap, [visible_show |-> "false"])}
         : t \in EditTargets}

Edit ==
  \E op \in EditOps : Iterate(op, applyEdit(elements, modelAttrs, aliases, nextUid, op), heap)

(***************************************************************************)
(* move                                                                    *)
(***************************************************************************)

\* let destUid = op.target; if (destUid && destUid.startsWith('$'))
\*   destUid = aliases[destUid.slice(1)]
DestUid(al, op) ==
  IF Truthy(Get(op, "target")) /\ StartsWithDollar(op.target)
  THEN Get(al, Slice1(op.target))
  ELSE Get(op, "target")

\* The destination is looked up in the tree the source has been taken out of.
MovePlace(els, op, destUid, removed) ==
  IF Get(op, "position") \in {"inside", "inside_end"}
  THEN InsertInside(els, findElementByUid(els, destUid), removed, FALSE)
  ELSE IF Get(op, "position") \in {"inside_start", "inside_top"}
  THEN InsertInside(els, findElementByUid(els, destUid), removed, TRUE)
  ELSE InsertBeside(els, destUid, removed, Get(op, "position"))

applyMove(els, attrs, al, next, op) ==
  LET targetUid == TargetUid(al, op)
      destUid == DestUid(al, op)
      srcResult == findParentOf(els, targetUid)
      array == ListAt(els, srcResult.array)
      idx == findIndex(array, targetUid)
      removed == array[idx + 1]
      detached == SetListAt(els, srcResult.array, Splice(array, idx, 1, <<>>))
  IN  IF ~srcResult.found THEN Outcome(els, attrs, al, next)
      ELSE Outcome(MovePlace(detached, op, destUid, removed), attrs, al, next)

MoveOp(uid, target, position) ==
  [type |-> "move", uid |-> uid, target |-> target, position |-> position]

\* The moves of the model: <<source, destination, position>>.
MoveCases ==
  {<<"u3", "u0", Undefined>>, <<"u3", "$root", "inside">>, <<"u2", "$x", "before">>,
   <<"u3", "u3", Undefined>>, <<"u3", "u4", "inside">>, <<"u3", "u4", "before">>,
   <<"u1", "u2", "inside_start">>,
   <<"u2", "u3", "inside">>, <<"u2", "u3", "inside_start">>, <<"u2", "u5", Undefined>>,
   <<"u3", "u5", "before">>, <<"u3", "u2", "before">>, <<"u5", "u2", Undefined>>,
   <<"u2", "u4", "inside">>, <<"u3", "u2", "inside_top">>, <<"u4", "u1", "inside_end">>,
   <<"$g1", "u3", "inside">>, <<"u3", "$g1", "inside">>, <<"u2", "$g1", Undefined>>,
   <<"u0", "u1", "inside">>, <<"$root", "u1", "inside">>}

MoveOps == {MoveOp(c[1], c[2], c[3]) : c \in MoveCases}

Move ==
  \E op \in MoveOps : Iterate(op, applyMove(elements, modelAttrs, aliases, nextUid, op), heap)

(***************************************************************************)
(* delete                                                                  *)
(***************************************************************************)

\* As applyDelete, splicing the top-level list at findIndex without the
\* guards: an index of -1 takes the last element out.
applyDelete_unguarded(els, attrs, al, next, op) ==
  Outcome(Splice(els, findIndex(els, TargetUid(al, op)), 1, <<>>), attrs, al, next)

\* As applyDelete, leaving the children of the target in its place.
applyDelete_hoistChildren(els, attrs, al, next, op) ==
  LET targetUid == TargetUid(al, op)
      result == findParentOf(els, targetUid)
      array == ListAt(els, result.array)
      idx == findIndex(array, targetUid)
  IN  IF result.found /\ idx # -1
      THEN Outcome(SetListAt(els, result.array,
                             Splice(array, idx, 1, array[idx + 1].elements)),
                   attrs, al, next)
      ELSE Outcome(els, attrs, al, next)

applyDelete(els, attrs, al, next, op) ==
  LET targetUid == TargetUid(al, op)
      result == findParentOf(els, targetUid)
      array == ListAt(els, result.array)
      idx == findIndex(array, targetUid)
  IN  IF result.found /\ idx # -1
      THEN Outcome(SetListAt(els, result.array, Splice(array, idx, 1, <<>>)),
                   attrs, al, next)
      ELSE Outcome(els, attrs, al, next)

DeleteOps == {[type |-> "delete", uid |-> t] : t \in {"u1", "u3", "u4", "$g1", "$x", "u0"}}

Delete ==
  \E op \in DeleteOps : Iterate(op, applyDelete(elements, modelAttrs, aliases, nextUid, op), heap)

(***************************************************************************)
(* bulk_replace                                                            *)
(***************************************************************************)

NoColor == Word("plain", "")

HasText(el) == HasKey(el.config, "text") /\ el.config.text # <<>>

\* As BulkElement, with the three group toggles written to a node of any
\* variant.
BulkElement_togglesAnywhere(el, op) ==
  LET c1 == IF op.set_required # Undefined
            THEN Put(el.config, "required", op.set_required) ELSE el.config
      c2 == IF op.set_read_only # Undefined
            THEN Put(c1, "read_only", op.set_read_only) ELSE c1
      vis == IF op.set_hidden # Undefined
             THEN Put(Put(el.visibility, "visible_form", Not(op.set_hidden)),
                      "visible_show", Not(op.set_hidden))
             ELSE el.visibility
      c3 == IF op.set_collapsible # Undefined
            THEN Put(c2, "collapsible", op.set_collapsible) ELSE c2
      c4 == IF op.set_show_in_toc # Undefined
            THEN Put(c3, "show_in_toc", op.set_show_in_toc) ELSE c3
      c5 == IF op.set_default_open # Undefined
            THEN Put(c4, "default_open", op.set_default_open) ELSE c4
      c6 == IF op.set_hide_label # Undefined
            THEN Put(c5, "hide_label", op.set_hide_label) ELSE c5
      c7 == IF HasText(el) /\ Truthy(op.find_color) /\ op.replace_color # NoColor
            THEN Put(c6, "text",
                     replaceColorsInHtml(el.config.text, op.find_color, op.replace_color))
            ELSE IF HasText(el) /\ op.find # <<>> /\ op.replace # <<>>
            THEN Put(c6, "text", ReplaceText(el.config.text, op.find, op.replace))
            ELSE c6
  IN  [el EXCEPT !.config = c7, !.visibility = vis]

BulkElement(el, op) ==
  LET c1 == IF op.set_required # Undefined
            THEN Put(el.config, "required", op.set_required) ELSE el.config
      c2 == IF op.set_read_only # Undefined
            THEN Put(c1, "read_only", op.set_read_only) ELSE c1
      vis == IF op.set_hidden # Undefined
             THEN Put(Put(el.visibility, "visible_form", Not(op.set_hidden)),
                      "visible_show", Not(op.set_hidden))
             ELSE el.visibility
      c3 == IF op.set_collapsible # Undefined /\ el.element_type = "group"
            THEN Put(c2, "collapsible", op.set_collapsible) ELSE c2
      c4 == IF op.set_show_in_toc # Undefined /\ el.element_type = "group"
            THEN Put(c3, "show_in_toc", op.set_show_in_toc) ELSE c3
      c5 == IF op.set_default_open # Undefined /\ el.element_type = "group"
            THEN Put(c4, "default_open", op.set_default_open) ELSE c4
      c6 == IF op.set_hide_label # Undefined
            THEN Put(c5, "hide_label", op.set_hide_label) ELSE c5
      c7 == IF HasText(el) /\ Truthy(op.find_color) /\ op.replace_color # NoColor
            THEN Put(c6, "text",
                     replaceColorsInHtml(el.config.text, op.find_color, op.replace_color))
            ELSE IF HasText(el) /\ op.find # <<>> /\ op.replace # <<>>
            THEN Put(c6, "text", ReplaceText(el.config.text, op.find, op.replace))
            ELSE c6
  IN  [el EXCEPT !.config = c7, !.visibility = vis]

\* As BulkFrom, leaving the loop at the first identifier that names no node.
RECURSIVE BulkFrom_stopAtMissing(_, _, _)
BulkFrom_stopAtMissing(els, op, i) ==
  IF i > Len(op.uids) THEN els
  ELSE LET el == findElementByUid(els, op.uids[i])
       IN  IF ~el.found THEN els
           ELSE BulkFrom_stopAtMissing(
                  SetNodeAt(els, el.path, BulkElement(NodeAt(els, el.path), op)), op, i + 1)

\* for (const uid of uids) { const el = findElementByUid(...); if (!el) continue; ... }
RECURSIVE BulkFrom(_, _, _)
BulkFrom(els, op, i) ==
  IF i > Len(op.uids) THEN els
  ELSE LET el == findElementByUid(els, op.uids[i])
       IN  IF ~el.found THEN BulkFrom(els, op, i + 1)
           ELSE BulkFrom(SetNodeAt(els, el.path, BulkElement(NodeAt(els, el.path), op)),
                         op, i + 1)

applyBulkReplace(els, attrs, al, next, op) == Outcome(BulkFrom(els, op, 1), attrs, al, next)

BulkColorOp(uids, findColor, replaceColor) ==
  [type |-> "bulk_replace", uids |-> uids, find_color |-> findColor,
   replace_color |-> replaceColor, find |-> <<>>, replace |-> <<>>,
   set_required |-> Undefined, set_read_only |-> Undefined, set_hidden |-> Undefined,
   set_collapsible |-> Undefined, set_show_in_toc |-> Undefined,
   set_default_open |-> Undefined, set_hide_label |-> Undefined]

BulkFlagsOp(uids) ==
  [type |-> "bulk_replace", uids |-> uids, find_color |-> Undefined,
   replace_color |-> NoColor, find |-> <<Word("plain", "HELLO")>>,
   replace |-> <<Word("plain", "Good"), Word("plain", "day")>>,
   set_required |-> "true", set_read_only |-> "false", set_hidden |-> "true",
   set_collapsible |-> "true", set_show_in_toc |-> "true",
   set_default_open |-> "false", set_hide_label |-> "true"]

\* The toggles of BulkFlagsOp, the other way round.
BulkShowOp(uids) ==
  [BulkFlagsOp(uids) EXCEPT !.set_hidden = "false", !.set_collapsible = "false",
                            !.set_show_in_toc = "false", !.set_default_open = "true"]

BulkUidLists == {<<"u0", "u2", "u1">>, <<"u4", "u2">>, <<"u0", "u9">>}

BulkOps ==
  UNION {{BulkColorOp(l, "red", Word("plain", "blue")), BulkFlagsOp(l)} : l \in BulkUidLists}
  \cup {BulkShowOp(<<"u0", "u2", "u1">>)}

BulkReplace ==
  \E op \in BulkOps :
    Iterate(op, applyBulkReplace(elements, modelAttrs, aliases, nextUid, op), heap)

(***************************************************************************)
(* replace_subtree                                                         *)
(***************************************************************************)

\* el.uid = generateUid(), then the children in order: the node with fresh
\* identifiers and the counter after it.
RECURSIVE regenerateUidsList(_, _)
\* As regenerateUids, without the descent into the children.
regenerateUids_rootOnly(el, next) ==
  [el |-> [el EXCEPT !.uid = Uid(next)], next |-> next + 1]

\* As regenerateUids, keeping the identifiers the structure came with.
regenerateUids_keepSupplied(el, next) == [el |-> el, next |-> next]

regenerateUids(el, next) ==
  LET kids == regenerateUidsList(el.elements, next + 1)
  IN  [el |-> [el EXCEPT !.uid = Uid(next), !.elements = kids.list], next |-> kids.next]

regenerateUidsList(list, next) ==
  IF list = <<>> THEN [list |-> <<>>, next |-> next]
  ELSE LET first == regenerateUids(Head(list), next)
           rest == regenerateUidsList(Tail(list), first.next)
       IN  [list |-> <<first.el>> \o rest.list, next |-> rest.next]

\* position || 'after'
PositionOrAfter(op) == IF Truthy(Get(op, "position")) THEN op.position ELSE "after"

\* As SpliceStructure, with position "replace" inserting before the target
\* without taking the target out.
SpliceStructure_alwaysInsert(els, targetUid, position, newStructure) ==
  LET result == findParentOf(els, targetUid)
      array == ListAt(els, result.array)
      idx == findIndex(array, targetUid)
      insertIdx == IF position \in {"before", "replace"} THEN idx ELSE idx + 1
  IN  IF ~(result.found /\ idx # -1) THEN els
      ELSE SetListAt(els, result.array, Splice(array, insertIdx, 0, <<newStructure>>))

\* result.array.splice(idx, 1, newStructure), or splice(insertIdx, 0, newStructure)
SpliceStructure(els, targetUid, position, newStructure) ==
  LET result == findParentOf(els, targetUid)
      array == ListAt(els, result.array)
      idx == findIndex(array, targetUid)
      insertIdx == IF position = "before" THEN idx ELSE idx + 1
  IN  IF ~(result.found /\ idx # -1) THEN els
      ELSE IF position = "replace"
      THEN SetListAt(els, result.array, Splice(array, idx, 1, <<newStructure>>))
      ELSE SetListAt(els, result.array, Splice(array, insertIdx, 0, <<newStructure>>))

HasStructure(op) == op.structure # NoObject

\* The heap after newStructure = regenerateUids(JSON.parse(JSON.stringify(op.structure))),
\* and the object newStructure refers to.
CloneStructure(h, op, next) ==
  LET passed == [h EXCEPT !["structure"] = op.structure]
      c == JsonClone(passed, "structure", "newStructure")
      fresh == regenerateUids(c.heap[c.ref], next)
  IN  [heap |-> [c.heap EXCEPT ![c.ref] = fresh.el], ref |-> c.ref, next |-> fresh.next]

applyReplaceSubtree(els, attrs, al, next, op, newStructure, nextAfter) ==
  IF ~HasStructure(op) THEN Outcome(els, attrs, al, next)
  ELSE Outcome(SpliceStructure(els, op.target_uid, PositionOrAfter(op), newStructure),
               attrs, al, nextAfter)

\* Structures a planner supplies: their identifiers repeat each other and
\* identifiers of the document.
Structures ==
  {WithChildren(createGroupElement(<<"New">>, NoOptions, "u1"),
     << createTextElement(<<Word("plain", "Hi")>>, NoOptions, "u1") >>),
   WithChildren(createGroupElement(<<"Fields">>, NoOptions, "u9"),
     << createAttributeElement("extra", <<"Extra">>, NoOptions, "u4") >>)}

ReplaceSubtreeOp(targetUid, position, structure) ==
  [type |-> "replace_subtree", target_uid |-> targetUid, position |-> position,
   structure |-> structure]

ReplaceCases ==
  {<<"u3", "replace">>, <<"u2", "before">>, <<"u1", Undefined>>, <<"u0", "replace">>,
   <<"$g1", "replace">>, <<"u5", "after">>}

ReplaceSubtreeOps ==
  {ReplaceSubtreeOp(c[1], c[2], st) : <<c, st>> \in ReplaceCases \X Structures}
  \cup {ReplaceSubtreeOp("u3", "replace", NoObject)}

ReplaceSubtree ==
  \E op \in ReplaceSubtreeOps :
    IF HasStructure(op)
    THEN LET c == CloneStructure(heap, op, nextUid)
         IN  Iterate(op, applyReplaceSubtree(elements, modelAttrs, aliases, nextUid, op,
                                             c.heap[c.ref], c.next), c.heap)
    ELSE Iterate(op, applyReplaceSubtree(elements, modelAttrs, aliases, nextUid, op,
                                         NoObject, nextUid), heap)

(***************************************************************************)
(* clone_subtree                                                           *)
(***************************************************************************)

RECURSIVE transformList(_, _, _)
transformElement(el, op, next) ==
  LET doLabels == op.label_find # <<>> /\ op.label_replace # <<>>
      config1 == IF doLabels /\ HasKey(el.config, "label") /\ el.config.label # <<>>
                 THEN Put(el.config, "label",
                          ReplaceLabel(el.config.label, op.label_find, op.label_replace))
                 ELSE el.config
      el1 == IF doLabels /\ HasKey(el, "label") /\ el.label # <<>>
             THEN [el EXCEPT !.label = ReplaceLabel(el.label, op.label_find,
                                                    op.label_replace)]
             ELSE el
      name1 == IF Truthy(op.field_suffix) /\ el.element_type = "attribute"
                  /\ Truthy(el.name)
               THEN el.name \o op.field_suffix ELSE el.name
      kids == transformList(el.elements, op, next + 1)
  IN  [el |-> [el1 EXCEPT !.uid = Uid(next), !.config = config1, !.name = name1,
                          !.elements = kids.list],
       next |-> kids.next]

transformList(list, op, next) ==
  IF list = <<>> THEN [list |-> <<>>, next |-> next]
  ELSE LET first == transformElement(Head(list), op, next)
           rest == transformList(Tail(list), op, first.next)
       IN  [list |-> <<first.el>> \o rest.list, next |-> rest.next]

RECURSIVE collectFieldNamesList(_)
collectFieldNames(el) ==
  (IF el.element_type = "attribute" /\ Truthy(el.name) THEN <<el.name>> ELSE <<>>)
  \o collectFieldNamesList(el.elements)

collectFieldNamesList(list) ==
  IF list = <<>> THEN <<>>
  ELSE collectFieldNames(Head(list)) \o collectFieldNamesList(Tail(list))

\* As EnsureAttributes, without the pushes: the registry is left as it was.
EnsureAttributes_none(attrs, names) == attrs

RECURSIVE EnsureAttributes(_, _)
EnsureAttributes(attrs, names) ==
  IF names = <<>> THEN attrs
  ELSE EnsureAttributes(EnsureAttribute(attrs, Head(names), "string"), Tail(names))

\* As InsertClone, pushing the copy to the end of the source's parent list.
InsertClone_atEnd(els, sourceUid, position, cloned) ==
  LET result == findParentOf(els, sourceUid)
  IN  IF ~result.found THEN els
      ELSE SetListAt(els, result.array, Append(ListAt(els, result.array), cloned))

\* result.array.splice(insertIdx, 0, cloned) next to the source
InsertClone(els, sourceUid, position, cloned) ==
  LET result == findParentOf(els, sourceUid)
      array == ListAt(els, result.array)
      idx == findIndex(array, sourceUid)
      insertIdx == IF position = "before" THEN idx ELSE idx + 1
  IN  IF ~(result.found /\ idx # -1) THEN els
      ELSE SetListAt(els, result.array, Splice(array, insertIdx, 0, <<cloned>>))

applyCloneSubtree(els, attrs, al, next, op) ==
  LET sourceEl == findElementByUid(els, op.source_uid)
      cloned == transformElement(NodeAt(els, sourceEl.path), op, next)
      attrs1 == IF Truthy(op.field_suffix)
                THEN EnsureAttributes(attrs, collectFieldNames(cloned.el)) ELSE attrs
  IN  IF ~sourceEl.found THEN Outcome(els, attrs, al, next)
      ELSE Outcome(InsertClone(els, op.source_uid, PositionOrAfter(op), cloned.el),
                   attrs1, al, cloned.next)

CloneSubtreeOp(sourceUid, position, labelFind, labelReplace, fieldSuffix) ==
  [type |-> "clone_subtree", source_uid |-> sourceUid, position |-> position,
   label_find |-> labelFind, label_replace |-> labelReplace, field_suffix |-> fieldSuffix]

CloneSubtreeOps ==
  {CloneSubtreeOp(src, Undefined, <<"SECTION", "1">>,
                  <<"Section", "1", "(Year", "2)">>, "_y2") : src \in {"u1", "u0", "$g1"}}
  \cup {CloneSubtreeOp(src, "before", <<>>, <<>>, Undefined) : src \in {"u3", "u5"}}
  \cup {CloneSubtreeOp("u3", Undefined, <<"inner">>, <<>>, "_y2")}

CloneSubtree ==
  \E op \in CloneSubtreeOps :
    Iterate(op, applyCloneSubtree(elements, modelAttrs, aliases, nextUid, op), heap)

(***************************************************************************)
(* Operations no branch handles, and operations that throw.                *)
(***************************************************************************)

\* No branch of the if / else-if chain matches op.type.
UnknownOps == {[type |-> "rename", uid |-> "u1"], [type |-> Undefined, uid |-> "$g1"]}

UnknownType ==
  \E op \in UnknownOps : Iterate(op, Outcome(elements, modelAttrs, aliases, nextUid), heap)

ThrowingOps == {NullOp, [type |-> "edit", uid |-> "42"],
                [type |-> "move", uid |-> "u2", target |-> "42"]}

\* The TypeError leaves applyOperations: nothing is returned.
AllOps ==
  AddOps \cup EditOps \cup MoveOps \cup DeleteOps \cup BulkOps \cup ReplaceSubtreeOps
  \cup CloneSubtreeOps \cup UnknownOps \cup ThrowingOps

ThrowTypeError ==
  \E op \in AllOps :
    /\ pc = "loop"
    /\ nOps < MaxOps
    /\ Throws(op)
    /\ pc' = "thrown"
    /\ Record(op)
    /\ UNCHANGED <<heap, dataRef, aliases, nextUid, ext>>

Next ==
  \/ CallNotArray \/ Call \/ Return
  \/ Add \/ Edit \/ Move \/ Delete \/ BulkReplace \/ ReplaceSubtree \/ CloneSubtree
  \/ UnknownType \/ ThrowTypeError

Spec == Init /\ [][Next]_vars

(***************************************************************************)
(* Batches that register aliases and refer to them: the same handlers, on  *)
(* the operations that carry an alias or a "$" reference, in batches of up *)
(* to MaxAliasOps operations.                                              *)
(***************************************************************************)

HideLabelPatch == [hide_label |-> "true"]

AliasAddOps ==
  {AddOp("group", <<"Section", "A">>, <<>>, Undefined, "g1", "$root", Undefined),
   AddOp("group", <<"Section", "B">>, <<>>, Undefined, "g1", "u3", "inside_start"),
   AddOp("group", <<"Section", "C">>, <<>>, Undefined, "g1", "u0", Undefined),
   AddOp("group", <<"Top">>, <<>>, Undefined, "root", "$root", Undefined),
   AddOp("text", <<>>, <<Word("plain", "Hello")>>, Undefined, Undefined, "$g1", "inside"),
   AddOp("text", <<>>, <<Word("plain", "Hello")>>, Undefined, Undefined, "$x", "inside"),
   AddOp("text", <<>>, <<Word("plain", "Hello")>>, Undefined, Undefined, "$root", "inside"),
   AddOp("image", <<>>, <<>>, Undefined, "g1", "$root", Undefined)}

AliasEditOps ==
  {EditOp(t, <<>>, <<>>, Undefined, HideLabelPatch, EmptyMap, EmptyMap, EmptyMap)
     : t \in {"$g1", "$x", "$root"}}

AliasMoveCases ==
  {<<"$g1", "u3", "inside">>, <<"u2", "$g1", "inside">>, <<"u2", "$root", "inside">>,
   <<"$root", "u3", "inside">>, <<"$x", "u3", "inside">>}

AliasMoveOps == {MoveOp(c[1], c[2], c[3]) : c \in AliasMoveCases}

AliasDeleteOps == {[type |-> "delete", uid |-> t] : t \in {"$g1", "$x", "$root"}}

AliasAdd ==
  \E op \in AliasAddOps :
    IterateWithin(op, applyAdd(elements, modelAttrs, aliases, nextUid, op), heap, MaxAliasOps)

AliasEdit ==
  \E op \in AliasEditOps :
    IterateWithin(op, applyEdit(elements, modelAttrs, aliases, nextUid, op), heap, MaxAliasOps)

AliasMove ==
  \E op \in AliasMoveOps :
    IterateWithin(op, applyMove(elements, modelAttrs, aliases, nextUid, op), heap, MaxAliasOps)

AliasDelete ==
  \E op \in AliasDeleteOps :
    IterateWithin(op, applyDelete(elements, modelAttrs, aliases, nextUid, op), heap,
                  MaxAliasOps)

NextAlias == Call \/ Return \/ AliasAdd \/ AliasEdit \/ AliasMove \/ AliasDelete

SpecAlias == Init /\ [][NextAlias]_vars

(***************************************************************************)
(* Two calls in a row: applyOperations is called on the caller's document, *)
(* and again on the document the first call returned, each call with a     *)
(* batch of up to MaxCallOps operations.  The working document of the      *)
(* second call is the heap object "data2".                                 *)
(***************************************************************************)

InitCalls ==
  /\ heap = [exportData |-> InputDocument, data |-> NoObject, data2 |-> NoObject,
             structure |-> NoObject, newStructure |-> NoObject]
  /\ dataRef = "none"
  /\ aliases = EmptyMap
  /\ nextUid = FirstFreshUid
  /\ pc = "call"
  /\ nOps = 0
  /\ lastOp = NoOp
  /\ before = NoSnapshot
  /\ prevOp = NoOp
  /\ prevBefore = NoSnapshot
  /\ ext = NoExtension

\* The second call: a new working copy, a new alias table, the loop from its
\* start.
CallAgain ==
  /\ pc = "done" /\ dataRef = "data"
  /\ LET c == JsonClone(heap, "data", "data2")
     IN  /\ heap' = c.heap
         /\ dataRef' = c.ref
  /\ aliases' = NewAliasTable(aliases)
  /\ pc' = "loop"
  /\ nOps' = 0
  /\ lastOp' = NoOp
  /\ before' = NoSnapshot
  /\ prevOp' = NoOp
  /\ prevBefore' = NoSnapshot
  /\ UNCHANGED <<nextUid, ext>>

BatchAddOps ==
  {AddOp("group", <<"Section", "A">>, <<>>, Undefined, "g1", "$root", Undefined),
   AddOp("text", <<>>, <<Word("plain", "Hello")>>, Undefined, Undefined, "$g1", "inside")}

BatchEditOps ==
  {EditOp(t, <<>>, <<>>, Undefined, HideLabelPatch, EmptyMap, EmptyMap, EmptyMap)
     : t \in {"$g1", "u1"}}

BatchMoveOps == {MoveOp("$g1", "u3", "inside")}

BatchDeleteOps == {[type |-> "delete", uid |-> "$g1"]}

BatchAdd ==
  \E op \in BatchAddOps :
    IterateWithin(op, applyAdd(elements, modelAttrs, aliases, nextUid, op), heap, MaxCallOps)

BatchEdit ==
  \E op \in BatchEditOps :
    IterateWithin(op, applyEdit(elements, modelAttrs, aliases, nextUid, op), heap, MaxCallOps)

BatchMove ==
  \E op \in BatchMoveOps :
    IterateWithin(op, applyMove(elements, modelAttrs, aliases, nextUid, op), heap, MaxCallOps)

BatchDelete ==
  \E op \in BatchDeleteOps :
    IterateWithin(op, applyDelete(elements, modelAttrs, aliases, nextUid, op), heap,
                  MaxCallOps)

NextCalls ==
  Call \/ Return \/ CallAgain \/ BatchAdd \/ BatchEdit \/ BatchMove \/ BatchDelete

SpecCalls == InitCalls /\ [][NextCalls]_vars

(***************************************************************************)
(* Colour rewrites: bulk_replace with find_color and replace_color on a    *)
(* document that holds one text, the text drawn from the colour literals   *)
(* and keywords below, the same rewrite applied up to MaxRewrites times.   *)
(***************************************************************************)

ColorTokens ==
  {Word("plain", "red"), Word("decl", "red"), Word("decl", "RED"),
   Word("decl", "crimson"), Word("decl", "blue"),
   Hex("decl", 204, 0, 0), Hex("plain", 0, 0, 255), Hex3("plain", 12, 0, 0),
   Rgb("decl", 200, 0, 0), Rgba("plain", 200, 0, 0, ", 0.5")}

ColorTexts == UNION {[1..n -> ColorTokens] : n \in 1..MaxTextLen}

ColorDocument(text) ==
  [elements |-> <<createTextElement(text, NoOptions, "u1")>>, ModelAttribute |-> <<>>]

InitColor ==
  /\ \E text \in ColorTexts :
       heap = [exportData |-> ColorDocument(text), data |-> NoObject,
               structure |-> NoObject, newStructure |-> NoObject]
  /\ dataRef = "none"
  /\ aliases = EmptyMap
  /\ nextUid = 2
  /\ pc = "call"
  /\ nOps = 0
  /\ lastOp = NoOp
  /\ before = NoSnapshot
  /\ prevOp = NoOp
  /\ prevBefore = NoSnapshot
  /\ ext = NoExtension

ColorFamilies == {"red", "blue", "Red", "pink"}

\* Replacement colours: family names, a keyword outside the table of targets,
\* six-digit and three-digit hex literals, an rgb() literal.
ColorTargets ==
  {Word("plain", "blue"), Word("plain", "RED"), Word("plain", "crimson"),
   Hex("plain", 0, 102, 204), Hex("plain", 255, 0, 0), Hex3("plain", 12, 0, 0),
   Rgb("plain", 250, 0, 0)}

ColorOps == {BulkColorOp(<<"u1">>, f, c) : <<f, c>> \in ColorFamilies \X ColorTargets}

\* The first rewrite of the batch is any of ColorOps; the batch repeats it.
ColorRewrite ==
  \E op \in ColorOps :
    /\ nOps = 0 \/ op = lastOp
    /\ IterateWithin(op, applyBulkReplace(elements, modelAttrs, aliases, nextUid, op), heap,
                     MaxRewrites)

NextColor == Call \/ Return \/ ColorRewrite

SpecColor == InitColor /\ [][NextColor]_vars

(***************************************************************************)
(* Two runs side by side: applyOperations is called twice with the same    *)
(* document and the same batch.  The runs differ in what generateUid       *)
(* returns: the second run draws its identifiers from a counter of its     *)
(* own.  The second run's working document, alias table and counter are    *)
(* the heap object "data2".  The batches refer to generated nodes by alias *)
(* only: a batch is written before crypto.randomUUID() is called.          *)
(***************************************************************************)

SecondRunFirstUid == 100

\* The branch of the loop body an operation takes.
applyOperation(els, attrs, al, next, op) ==
  CASE op.type = "add" -> applyAdd(els, attrs, al, next, op)
    [] op.type = "edit" -> applyEdit(els, attrs, al, next, op)
    [] op.type = "move" -> applyMove(els, attrs, al, next, op)
    [] op.type = "delete" -> applyDelete(els, attrs, al, next, op)
    [] op.type = "bulk_replace" -> applyBulkReplace(els, attrs, al, next, op)
    [] op.type = "clone_subtree" -> applyCloneSubtree(els, attrs, al, next, op)

CallTwice ==
  /\ pc = "call"
  /\ heap' = [heap EXCEPT
                !.data = heap["exportData"],
                !.data2 = Outcome(heap["exportData"].elements,
                                  heap["exportData"].ModelAttribute,
                                  NewAliasTable(aliases), SecondRunFirstUid)]
  /\ dataRef' = "data"
  /\ aliases' = NewAliasTable(aliases)
  /\ pc' = "loop"
  /\ UNCHANGED <<nextUid, nOps, lastOp, before, prevOp, prevBefore, ext>>

RunOps ==
  {AddOp("group", <<"Section", "A">>, <<>>, Undefined, "g1", "$root", Undefined),
   AddOp("text", <<>>, <<Word("plain", "Hello")>>, Undefined, Undefined, "$g1", "inside"),
   AddOp("field", <<"Budget">>, <<>>, "budget", Undefined, "u2", "before"),
   EditOp("$g1", <<"Renamed">>, <<>>, "true", HideLabelPatch, EmptyMap,
          [margin_top |-> "5"], [visible_form |-> "false"]),
   MoveOp("u3", "$g1", "inside_start"),
   [type |-> "delete", uid |-> "$g1"],
   [type |-> "delete", uid |-> "u3"],
   CloneSubtreeOp("u1", Undefined, <<"SECTION", "1">>, <<"Section", "1", "(Year", "2)">>,
                  "_y2"),
   BulkFlagsOp(<<"u4", "u2">>)}

RunBoth ==
  \E op \in RunOps :
    LET second == heap["data2"]
        out2 == applyOperation(second.elements, second.ModelAttribute, second.aliases,
                               second.nextUid, op)
    IN  IterateWithin(op, applyOperation(elements, modelAttrs, aliases, nextUid, op),
                      [heap EXCEPT !.data2 = out2], MaxRunOps)

NextRuns == CallTwice \/ Return \/ RunBoth

SpecRuns == InitCalls /\ [][NextRuns]_vars

(***************************************************************************)
(* Recolouring from family to family: one text node holding the target     *)
(* colour of a family; a batch of up to MaxRecolors colour rewrites, each  *)
(* searching for the family the rewrite before it wrote.                   *)
(***************************************************************************)

NineFamilies == DOMAIN TargetColors

FamilyTexts == {<<[getTargetColor(Word("plain", f)) EXCEPT !.ctx = "decl"]>> : f \in NineFamilies}

InitFamily ==
  /\ \E text \in FamilyTexts :
       heap = [exportData |-> ColorDocument(text), data |-> NoObject,
               structure |-> NoObject, newStructure |-> NoObject]
  /\ dataRef = "none"
  /\ aliases = EmptyMap
  /\ nextUid = 2
  /\ pc = "call"
  /\ nOps = 0
  /\ lastOp = NoOp
  /\ before = NoSnapshot
  /\ prevOp = NoOp
  /\ prevBefore = NoSnapshot
  /\ ext = NoExtension

FamilyOps ==
  {BulkColorOp(<<"u1">>, f, Word("plain", t)) : <<f, t>> \in NineFamilies \X NineFamilies}

Recolor ==
  \E op \in FamilyOps :
    /\ IF nOps = 0 THEN TRUE ELSE op.find_color = lastOp.replace_color.v
    /\ IterateWithin(op, applyBulkReplace(elements, modelAttrs, aliases, nextUid, op), heap,
                     MaxRecolors)

NextFamily == Call \/ Return \/ Recolor

SpecFamily == InitFamily /\ [][NextFamily]_vars

(***************************************************************************)
(* The content script's cached export.  ext holds its globals              *)
(* currentStencilId, currentExport and isOnFormEditor, the page (dom: the  *)
(* stencil whose export link and import button the page shows, selected:   *)
(* the stencil the user has opened and the page will show), the downloads  *)
(* in flight and the last answer to GET_EXPORT or REFRESH_EXPORT.  A       *)
(* handler runs to its first await in one step; what follows the await is  *)
(* a step of its own.                                                      *)
(***************************************************************************)

engineVars == <<heap, dataRef, aliases, nextUid, pc, nOps, lastOp, before, prevOp, prevBefore>>

Null == "null"
Stencils == {"101", "102"}
ExportOf(s) == [stencil |-> s]
NoExport == ExportOf(Null)
NoResponse == [success |-> FALSE, data |-> NoExport, stencil |-> Null, error |-> "none"]
Failure(error) == [success |-> FALSE, data |-> NoExport, stencil |-> Null, error |-> error]

currentStencilId == ext.currentStencilId
currentExport == ext.currentExport
isOnFormEditor == ext.isOnFormEditor

InitContent ==
  /\ Init!1 /\ Init!2 /\ Init!3 /\ Init!4 /\ Init!5 /\ Init!6 /\ Init!7 /\ Init!8 /\ Init!9
  /\ Init!10
  /\ ext = [currentStencilId |-> Null, currentExport |-> NoExport, isOnFormEditor |-> FALSE,
            dom |-> Null, selected |-> Null, fetches |-> <<>>, lastResponse |-> NoResponse]

\* findExportLink(targetStencilId): the link of the target, or else the first
\* export link of the page; the page shows one export link or none.
findExportLink(targetStencilId) == ext.dom

\* The click listener on a theme entry of the sidebar; the page follows later.
ClickTheme ==
  \E clickedStencilId \in Stencils :
    /\ ext' = IF clickedStencilId # currentStencilId
              THEN [ext EXCEPT !.currentStencilId = clickedStencilId,
                               !.currentExport = NoExport,
                               !.selected = clickedStencilId]
              ELSE [ext EXCEPT !.selected = clickedStencilId]
    /\ UNCHANGED engineVars

\* The user leaves the form editor.
LeaveEditor ==
  /\ ext.selected # Null
  /\ ext' = [ext EXCEPT !.selected = Null]
  /\ UNCHANGED engineVars

\* Fluxx renders the page of what the user has opened.
Render ==
  /\ ext.dom # ext.selected
  /\ ext' = [ext EXCEPT !.dom = ext.selected]
  /\ UNCHANGED engineVars

\* detectFormEditor(), run by the poll, the observer and the click timers
detectFormEditor ==
  LET exportLink == findExportLink(currentStencilId)
      wasOnFormEditor == isOnFormEditor
      foundStencilId == exportLink
      now == exportLink # Null
  IN  /\ ext' = IF now /\ ~wasOnFormEditor
                THEN [ext EXCEPT !.isOnFormEditor = TRUE,
                                 !.currentStencilId =
                                    IF currentStencilId = Null THEN foundStencilId ELSE @]
                ELSE IF ~now /\ wasOnFormEditor
                THEN [ext EXCEPT !.isOnFormEditor = FALSE, !.currentExport = NoExport,
                                 !.currentStencilId = Null]
                ELSE ext
      /\ UNCHANGED engineVars

\* downloadExport() up to its await of fetch(href), called by a handler
StartDownload(handler) ==
  LET exportLink == findExportLink(currentStencilId)
  IN  IF exportLink = Null
      THEN [ext EXCEPT !.lastResponse = Failure("Export link not found")]
      ELSE [ext EXCEPT !.currentStencilId = IF @ = Null THEN exportLink ELSE @,
                       !.fetches = Append(@, [handler |-> handler, stencil |-> exportLink])]

\* handleGetExport up to its first await, or to its answer from the cache
handleGetExport ==
  /\ Len(ext.fetches) < MaxFetches
  /\ ext' = IF ~isOnFormEditor
            THEN [ext EXCEPT !.lastResponse = Failure("Not on form editor page")]
            ELSE IF currentExport # NoExport
            THEN [ext EXCEPT !.lastResponse =
                    [success |-> TRUE, data |-> currentExport, stencil |-> currentStencilId,
                     error |-> "none"]]
            ELSE StartDownload("get")
  /\ UNCHANGED engineVars

\* handleRefreshExport up to its await
handleRefreshExport ==
  /\ Len(ext.fetches) < MaxFetches
  /\ ext' = StartDownload("refresh")
  /\ UNCHANGED engineVars

\* A fetch is answered: currentExport = data, and the handler answers with it.
DownloadCompletes ==
  \E i \in 1..Len(ext.fetches) :
    /\ ext' = [ext EXCEPT !.fetches = Splice(@, i - 1, 1, <<>>),
                          !.currentExport = ExportOf(ext.fetches[i].stencil),
                          !.lastResponse =
                             [success |-> TRUE, data |-> ExportOf(ext.fetches[i].stencil),
                              stencil |-> currentStencilId, error |-> "none"]]
    /\ UNCHANGED engineVars

\* A fetch fails or is answered with a status that is not ok: the handler
\* answers with the error.
DownloadFails ==
  \E i \in 1..Len(ext.fetches) :
    /\ ext' = [ext EXCEPT !.fetches = Splice(@, i - 1, 1, <<>>),
                          !.lastResponse = Failure("HTTP")]
    /\ UNCHANGED engineVars

NextContent ==
  \/ ClickTheme \/ LeaveEditor \/ Render \/ detectFormEditor
  \/ handleGetExport \/ handleRefreshExport \/ DownloadCompletes \/ DownloadFails

SpecContent == InitContent /\ [][NextContent]_vars

(***************************************************************************)
(* The side panel (src/sidepanel/sidepanel.js).  ext holds the fields of   *)
(* its state object that the handlers below read or write, the fetches of  *)
(* sendMessage and handleDocumentUpload that are awaited (requests), the   *)
(* GET_EXPORT and REFRESH_EXPORT messages whose response callback has not  *)
(* run (queries), the numbers of the lists of operations sent so far, in   *)
(* order (sent), the imports the content script has not                    *)
(* reported yet (imports) and the last handler that ran (lastHandler; for  *)
(* applyOperations with pendingBefore, the pendingOperations it found, and *)
(* lastApply, the message it sent, NoApply for none).  A list of           *)
(* operations is a record of its number and of the export that went out    *)
(* with the request it answers.  An async handler runs to its await in one *)
(* step and resumes in another.                                            *)
(***************************************************************************)

NoOperations == [id |-> 0, export |-> NoExport]
Operations(id, export) == [id |-> id, export |-> export]
NoApply == [type |-> "none", operations |-> NoOperations, export |-> NoExport]
FluxxTab == "tab1"

InitPanel ==
  /\ Init!1 /\ Init!2 /\ Init!3 /\ Init!4 /\ Init!5 /\ Init!6 /\ Init!7 /\ Init!8 /\ Init!9
  /\ Init!10
  /\ ext = [connected |-> FALSE, fluxxTabId |-> Null, currentExport |-> NoExport,
            pendingOperations |-> NoOperations, isLoading |-> FALSE,
            requests |-> <<>>, queries |-> <<>>, proposals |-> 0,
            lastApply |-> NoApply, sent |-> <<>>, imports |-> 0,
            lastHandler |-> "init", pendingBefore |-> NoOperations]

\* The bookkeeping of every handler: its name; lastApply and pendingBefore
\* are kept by the click listener of Apply alone.
Handled(st, handler) ==
  [st EXCEPT !.lastHandler = handler, !.lastApply = NoApply, !.pendingBefore = NoOperations]

\* The bookkeeping of applyOperations(): the pendingOperations it found and
\* the message it sent.
Applied(st, message) ==
  [st EXCEPT !.lastHandler = "applyOperations", !.lastApply = message,
             !.pendingBefore = ext.pendingOperations]

setConnected(st, exportData) == [st EXCEPT !.connected = TRUE, !.currentExport = exportData]

setDisconnected(st) ==
  [st EXCEPT !.connected = FALSE, !.currentExport = NoExport, !.fluxxTabId = Null]

setLoading(st, loading) == [st EXCEPT !.isLoading = loading]

\* checkFluxxConnection() up to the callback of its GET_EXPORT message; the
\* active tab is a Fluxx tab or it is not.
checkFluxxConnection(st, onFluxx) ==
  IF ~onFluxx
  THEN setDisconnected(st)
  ELSE [st EXCEPT !.fluxxTabId = FluxxTab, !.queries = Append(@, "GET_EXPORT")]

\* The listeners of chrome.tabs.onActivated and chrome.tabs.onUpdated
TabChanged ==
  \E onFluxx \in BOOLEAN :
    /\ onFluxx => Len(ext.queries) < MaxQueries
    /\ ext' = Handled(checkFluxxConnection(ext, onFluxx), "checkFluxxConnection")
    /\ UNCHANGED engineVars

\* handleMessage: FLUXX_PAGE_LOADED and FLUXX_STATE_CHANGED
FluxxStateChanged ==
  \E isOnForm \in BOOLEAN, onFluxx \in BOOLEAN :
    /\ (isOnForm /\ onFluxx) => Len(ext.queries) < MaxQueries
    /\ ext' = Handled(IF isOnForm
                      THEN checkFluxxConnection([ext EXCEPT !.currentExport = NoExport],
                                                onFluxx)
                      ELSE setDisconnected(ext),
                      "FLUXX_STATE_CHANGED")
    /\ UNCHANGED engineVars

\* refreshExport() up to the callback of its REFRESH_EXPORT message
refreshExport ==
  /\ Len(ext.queries) < MaxQueries
  /\ ext' = Handled(IF ext.fluxxTabId = Null
                    THEN ext
                    ELSE [ext EXCEPT !.queries = Append(@, "REFRESH_EXPORT")],
                    "refreshExport")
  /\ UNCHANGED engineVars

\* The response callback of GET_EXPORT (checkFluxxConnection) or of
\* REFRESH_EXPORT (refreshExport): the content script answers with the
\* export of a stencil, or with a failure, or not at all (lastError).
QueryAnswered ==
  \E i \in 1..Len(ext.queries), success \in BOOLEAN, s \in Stencils :
    LET rest == [ext EXCEPT !.queries = Splice(@, i - 1, 1, <<>>)]
    IN  /\ ext' = Handled(IF success
                          THEN setConnected(rest, ExportOf(s))
                          ELSE IF ext.queries[i] = "GET_EXPORT"
                          THEN setDisconnected(rest)
                          ELSE rest,
                          ext.queries[i])
        /\ UNCHANGED engineVars

\* sendMessage() up to its await of fetch; the text may be empty.
sendMessage ==
  \E text \in {"", "hello"} :
    /\ ext.proposals < MaxRequests
    /\ ext' = IF text = "" \/ ext.isLoading \/ ~ext.connected
              THEN Handled(ext, "sendMessage returns")
              ELSE Handled([setLoading(ext, TRUE) EXCEPT
                              !.proposals = @ + 1,
                              !.requests = Append(@, [endpoint |-> "chat",
                                                      id |-> ext.proposals + 1,
                                                      export |-> ext.currentExport])],
                       "sendMessage")
    /\ UNCHANGED engineVars

\* handleDocumentUpload(e) up to its await of fetch; no file may be chosen.
handleDocumentUpload ==
  \E file \in {"", "form.pdf"} :
    /\ ext.proposals < MaxRequests
    /\ ext' = IF file = "" \/ ext.isLoading \/ ~ext.connected
              THEN Handled(ext, "handleDocumentUpload returns")
              ELSE Handled([setLoading(ext, TRUE) EXCEPT
                              !.proposals = @ + 1,
                              !.requests = Append(@, [endpoint |-> "generate-form",
                                                      id |-> ext.proposals + 1,
                                                      export |-> ext.currentExport])],
                       "handleDocumentUpload")
    /\ UNCHANGED engineVars

\* What follows the await in sendMessage and in handleDocumentUpload: the
\* service answers with a list of operations for the export of the request,
\* or with an explanation or an error, or the fetch fails; finally
\* setLoading(false).
Responded(i, hasOperations) ==
  LET request == ext.requests[i]
      rest == [ext EXCEPT !.requests = Splice(@, i - 1, 1, <<>>)]
  IN  setLoading(IF hasOperations
                 THEN [rest EXCEPT !.pendingOperations =
                                      Operations(request.id, request.export)]
                 ELSE rest,
                 FALSE)

sendMessageResumes ==
  \E i \in 1..Len(ext.requests), hasOperations \in BOOLEAN :
    /\ ext.requests[i].endpoint = "chat"
    /\ ext' = Handled(Responded(i, hasOperations), "sendMessage response")
    /\ UNCHANGED engineVars

handleDocumentUploadResumes ==
  \E i \in 1..Len(ext.requests), hasOperations \in BOOLEAN :
    /\ ext.requests[i].endpoint = "generate-form"
    /\ ext' = Handled(Responded(i, hasOperations), "handleDocumentUpload response")
    /\ UNCHANGED engineVars

\* hideOperationsPreview(), the click listener of Cancel and of Reject
hideOperationsPreview ==
  /\ ext' = Handled([ext EXCEPT !.pendingOperations = NoOperations], "hideOperationsPreview")
  /\ UNCHANGED engineVars

applyOperations_keepsPending ==
  /\ ext' = IF ext.pendingOperations = NoOperations \/ ext.fluxxTabId = Null
            THEN Applied(ext, NoApply)
            ELSE Applied([setLoading(ext, TRUE) EXCEPT
                            !.sent = Append(@, ext.pendingOperations.id),
                            !.imports = @ + 1],
                         [type |-> "APPLY_OPERATIONS",
                          operations |-> ext.pendingOperations,
                          export |-> ext.currentExport])
  /\ UNCHANGED engineVars

\* applyOperations(), the click listener of Apply
applyOperations ==
  /\ ext' = IF ext.pendingOperations = NoOperations \/ ext.fluxxTabId = Null
            THEN Applied(ext, NoApply)
            ELSE Applied([setLoading(ext, TRUE) EXCEPT
                            !.pendingOperations = NoOperations,
                            !.sent = Append(@, ext.pendingOperations.id),
                            !.imports = @ + 1],
                         [type |-> "APPLY_OPERATIONS",
                          operations |-> ext.pendingOperations,
                          export |-> ext.currentExport])
  /\ UNCHANGED engineVars

\* handleMessage: IMPORT_COMPLETE and IMPORT_ERROR, sent by the content
\* script at the end of an import
ImportReported ==
  \E type \in {"IMPORT_COMPLETE", "IMPORT_ERROR"} :
    /\ ext.imports > 0
    /\ ext' = Handled([setLoading(ext, FALSE) EXCEPT !.imports = @ - 1], type)
    /\ UNCHANGED engineVars

NextPanel ==
  \/ TabChanged \/ FluxxStateChanged \/ refreshExport \/ QueryAnswered
  \/ sendMessage \/ sendMessageResumes
  \/ handleDocumentUpload \/ handleDocumentUploadResumes
  \/ hideOperationsPreview \/ applyOperations \/ ImportReported

SpecPanel == InitPanel /\ [][NextPanel]_vars

(***************************************************************************)
(* The import (applyAndUpload in src/content/fluxx-bridge.js) and the      *)
(* loading state of the side panel.  ext holds isLoading of the side       *)
(* panel, the APPLY_OPERATIONS messages on their way to the content script *)
(* (tabMessages), for each of them the position of its run of              *)
(* applyAndUpload (at), the polls its waiting loop has made and the way it *)
(* ended (path), the IMPORT_COMPLETE and IMPORT_ERROR messages on their    *)
(* way to the side panel (runtimeMessages), and the requests that were     *)
(* handled, reported and received (handled, reported, cleared).  A run     *)
(* goes from await to await in one step; what the page shows at each step  *)
(* is for Fluxx to decide.                                                 *)
(***************************************************************************)

Requests == 1..MaxApplies
NoRun == [at |-> "none", polls |-> 0, path |-> "none"]

InitImport ==
  /\ Init!1 /\ Init!2 /\ Init!3 /\ Init!4 /\ Init!5 /\ Init!6 /\ Init!7 /\ Init!8 /\ Init!9
  /\ Init!10
  /\ ext = [isLoading |-> FALSE, applies |-> 0, tabMessages |-> <<>>,
            runs |-> [n \in Requests |-> NoRun], runtimeMessages |-> <<>>,
            handled |-> {}, reported |-> {}, cleared |-> {}]

\* chrome.runtime.sendMessage({ type: ... }) by the run of request n
SendRuntimeMessage(st, n, type) ==
  [st EXCEPT !.runtimeMessages = Append(@, [type |-> type, request |-> n]),
             !.reported = @ \cup {n}]

\* The catch block of applyAndUpload: IMPORT_ERROR, and the run returns.
catchBlock(st, n, path) ==
  SendRuntimeMessage([st EXCEPT !.runs[n] = [at |-> "returned", polls |-> 0, path |-> path]],
                     n, "IMPORT_ERROR")

\* The branch 'refreshLink || uploadComplete' up to its await of sleep(500)
ImportComplete(st, n, path) ==
  SendRuntimeMessage([st EXCEPT !.runs[n] = [at |-> "sleep500", polls |-> 0, path |-> path]],
                     n, "IMPORT_COMPLETE")

\* applyOperations() of the side panel, from a pending list: setLoading(true)
\* and the APPLY_OPERATIONS message, with the current export or with null.
ApplyClicked ==
  \E export \in {NoExport, ExportOf("101")} :
    /\ ext.applies < MaxApplies
    /\ ext' = [ext EXCEPT !.isLoading = TRUE, !.applies = @ + 1,
                          !.tabMessages = Append(@, [request |-> ext.applies + 1,
                                                     export |-> export])]
    /\ UNCHANGED engineVars

\* The message listener, handleApplyOperations and applyAndUpload up to its
\* first await: the engine throws on an export that is null, the Import
\* button is on the page or it is not.
handleApplyOperations ==
  \E importBtn \in BOOLEAN :
    LET message == Head(ext.tabMessages)
        n == message.request
        st == [ext EXCEPT !.tabMessages = Tail(@), !.handled = @ \cup {n}]
    IN  /\ ext.tabMessages # <<>>
        /\ ext' = IF message.export = NoExport
                  THEN catchBlock(st, n, "engine failure")
                  ELSE IF ~importBtn
                  THEN catchBlock(st, n, "Import button not found")
                  ELSE [st EXCEPT !.runs[n] = [at |-> "sleep800", polls |-> 0,
                                               path |-> "none"]]
        /\ UNCHANGED engineVars

\* sleep(800) ends: the run enters waitForElement(selector, 5000).
sleep800Ends ==
  \E n \in Requests :
    /\ ext.runs[n].at = "sleep800"
    /\ ext' = [ext EXCEPT !.runs[n].at = "waitForElement"]
    /\ UNCHANGED engineVars

\* One turn of the loop of waitForElement, and on its return the run up to
\* its next await: the upload link is found or not yet or the time is up;
\* the page has a file input for text, or the link has an uploader, or
\* neither.
waitForElement ==
  \E n \in Requests, el \in BOOLEAN, input \in {"file input", "uploader", "none"} :
    /\ ext.runs[n].at = "waitForElement"
    /\ ext' = IF el
              THEN CASE input = "file input" ->
                          [ext EXCEPT !.runs[n] = [at |-> "detect", polls |-> 0,
                                                   path |-> "file input"]]
                     [] input = "uploader" ->
                          [ext EXCEPT !.runs[n] = [at |-> "uploader", polls |-> 0,
                                                   path |-> "uploader"]]
                     [] OTHER -> catchBlock(ext, n, "Could not find import file input")
              ELSE IF ext.runs[n].polls < MaxPolls
              THEN [ext EXCEPT !.runs[n].polls = @ + 1]
              ELSE catchBlock(ext, n, "Upload link not found")
    /\ UNCHANGED engineVars

\* The uploader fires UploadComplete or Error: the promise is settled.  When
\* it is resolved fileInput is null and textInputs is empty, and the run
\* throws as it does when it is rejected.
uploaderEvent ==
  \E n \in Requests, event \in {"UploadComplete", "Error"} :
    /\ ext.runs[n].at = "uploader"
    /\ ext' = catchBlock(ext, n, IF event = "Error" THEN "uploader error"
                                 ELSE "uploader complete")
    /\ UNCHANGED engineVars

\* One turn of the detection loop: the page shows the refresh link or the
\* success text, or a full progress bar or an uploaded file, or none of
\* them; after the last turn the time is up.
detect ==
  \E n \in Requests, sign \in {"link", "text", "progress", "none"} :
    /\ ext.runs[n].at = "detect"
    /\ ext' = IF sign \in {"link", "text"}
              THEN ImportComplete(ext, n, "success shown")
              ELSE IF sign = "progress"
              THEN [ext EXCEPT !.runs[n].at = "sleep2000"]
              ELSE IF ext.runs[n].polls < MaxPolls
              THEN [ext EXCEPT !.runs[n].polls = @ + 1]
              ELSE catchBlock(ext, n, "timeout")
    /\ UNCHANGED engineVars

\* sleep(2000) ends: uploadComplete = true, break.
sleep2000Ends ==
  \E n \in Requests :
    /\ ext.runs[n].at = "sleep2000"
    /\ ext' = ImportComplete(ext, n, "upload finished")
    /\ UNCHANGED engineVars

\* sleep(500) ends: window.location.reload().  The page is loaded anew, and
\* with it the content script: every run that awaits is gone.
reload ==
  \E n \in Requests :
    /\ ext.runs[n].at = "sleep500"
    /\ ext' = [ext EXCEPT !.runs =
                 [m \in Requests |->
                    IF m = n THEN [ext.runs[m] EXCEPT !.at = "returned"]
                    ELSE IF ext.runs[m].at \in {"none", "returned", "destroyed"}
                    THEN ext.runs[m]
                    ELSE [ext.runs[m] EXCEPT !.at = "destroyed"]]]
    /\ UNCHANGED engineVars

\* handleMessage of the side panel: IMPORT_COMPLETE and IMPORT_ERROR
handleImportMessage ==
  /\ ext.runtimeMessages # <<>>
  /\ ext' = [ext EXCEPT !.runtimeMessages = Tail(@), !.isLoading = FALSE,
                        !.cleared = @ \cup {Head(ext.runtimeMessages).request}]
  /\ UNCHANGED engineVars

NextImport ==
  \/ ApplyClicked \/ handleApplyOperations \/ sleep800Ends \/ waitForElement
  \/ uploaderEvent \/ detect \/ sleep2000Ends \/ reload \/ handleImportMessage

SpecImport == InitImport /\ [][NextImport]_vars

\* Timers fire, the uploader fires one of its two events, and messages are
\* delivered.
FairSpecImport ==
  /\ SpecImport
  /\ WF_vars(handleApplyOperations) /\ WF_vars(sleep800Ends) /\ WF_vars(waitForElement)
  /\ WF_vars(uploaderEvent) /\ WF_vars(detect) /\ WF_vars(sleep2000Ends)
  /\ WF_vars(reload) /\ WF_vars(handleImportMessage)

(***************************************************************************)
(* Properties.                                                             *)
(***************************************************************************)

\* The last iteration ran an operation of type t to its end.
Ran(t) == pc \in {"loop", "done"} /\ Get(lastOp, "type") = t

\* The node a reference names: an identifier names the node that carries it,
\* "$a" names the node bound to alias a, "$root" names no node.
RefUid(al, ref) ==
  IF ref = "$root" THEN Undefined
  ELSE IF StartsWithDollar(ref) THEN Get(al, Slice1(ref))
  ELSE ref
RefResolves(snapshot, ref) ==
  RefUid(snapshot.aliases, ref) \in UidSet(snapshot.elements)
RefNode(snapshot, ref) ==
  NodeAt(snapshot.elements,
         PathFrom(snapshot.elements, RefUid(snapshot.aliases, ref), 1))

\* The working document and alias table now, in the shape of `before`.
Now == [elements |-> elements, ModelAttribute |-> modelAttrs, aliases |-> aliases]
DocumentUnchanged ==
  elements = before.elements /\ modelAttrs = before.ModelAttribute

\* The references of an operation record are strings or absent.
WellTyped(op) ==
  /\ op # [null |-> "true"]
  /\ \A f \in {"after_uid", "uid", "target"} : Get(op, f) # "42"

\* C1: after every operation of a batch the node identifiers of the working
\* tree are pairwise distinct (generateUid never repeats an identifier).
C1_IdentifiersDistinct ==
  pc \in {"loop", "done"} => UidsDistinct(elements)

\* A replace_subtree has inserted a structure whose caller-supplied
\* identifiers repeat each other or identifiers of the document.
C1_Witness ==
  /\ Ran("replace_subtree")
  /\ NodeCount(elements) > NodeCount(before.elements)
  /\ UidSet(<<lastOp.structure>>) \cap UidSet(before.elements) # {}

\* C2: an add whose anchor is not the root sentinel and names no node of the
\* working tree leaves the tree and the attribute registry as they were.
C2_AddUnresolvedAnchorSkipped ==
  (Ran("add") /\ lastOp.after_uid # "$root" /\ ~RefResolves(before, lastOp.after_uid))
    => DocumentUnchanged

\* C3: a move whose source names a node and whose destination names none
\* leaves the whole document as it was.
C3_MoveUnresolvedDestinationSkipped ==
  (Ran("move") /\ RefResolves(before, lastOp.uid) /\ ~RefResolves(before, lastOp.target))
    => DocumentUnchanged

\* C4: a move whose destination is the source node or one of its
\* descendants leaves the source subtree where it was.
C4_MoveIntoOwnSubtreeRejected ==
  (/\ Ran("move")
   /\ RefResolves(before, lastOp.uid)
   /\ RefResolves(before, lastOp.target)
   /\ RefUid(before.aliases, lastOp.target) \in UidSet(<<RefNode(before, lastOp.uid)>>))
    => DocumentUnchanged

\* C5: a move keeps the number of nodes of the document, and the moved
\* subtree is the same before and after.
C5_MovePreservesNodes ==
  Ran("move") =>
    /\ NodeCount(elements) = NodeCount(before.elements)
    /\ RefResolves(before, lastOp.uid) =>
         /\ RefUid(before.aliases, lastOp.uid) \in UidSet(elements)
         /\ NodeAt(elements, PathFrom(elements, RefUid(before.aliases, lastOp.uid), 1))
              = RefNode(before, lastOp.uid)

\* C6: when the batch is over, every field reference of the document has a
\* registry entry with its field name.
C6_FieldsRegistered ==
  pc = "done" =>
    \A n \in NodeSet(elements) :
      n.element_type = "attribute" => n.name \in RegistryNames(modelAttrs)

\* C7: after every operation only groups have children.
C7_OnlyGroupsHaveChildren ==
  pc \in {"loop", "done"} =>
    \A n \in NodeSet(elements) : n.elements # <<>> => n.element_type = "group"

C9_InputsUnchanged ==
  /\ heap["exportData"] = InputDocument
  /\ (Ran("replace_subtree") /\ HasStructure(lastOp))
       => heap["structure"] = lastOp.structure

\* A replace_subtree has worked on a copy of its structure, in a working
\* document that differs from the caller's.
C9_Witness ==
  /\ Ran("replace_subtree") /\ HasStructure(lastOp)
  /\ elements # InputDocument.elements
  /\ heap["newStructure"] # lastOp.structure
  /\ elements # before.elements

KnownTypes == {"add", "edit", "move", "delete", "bulk_replace", "replace_subtree",
               "clone_subtree"}

\* The operations C10 is about, with well-typed references.
SkipCase(op, snapshot) ==
  /\ Get(op, "type") \notin {"none", "not_an_array"}
  /\ WellTyped(op)
  /\ \/ Get(op, "type") \in {"edit", "delete"} /\ ~RefResolves(snapshot, op.uid)
     \/ Get(op, "type") = "clone_subtree" /\ ~RefResolves(snapshot, op.source_uid)
     \/ Get(op, "type") = "replace_subtree"
          /\ (~HasStructure(op) \/ ~RefResolves(snapshot, op.target_uid))
     \/ Get(op, "type") = "bulk_replace"
          /\ \A i \in 1..Len(op.uids) : ~RefResolves(snapshot, op.uids[i])
     \/ Get(op, "type") \notin KnownTypes

AddBuilds(op) == op.element_type \in {"group", "text", "field"}

\* The identifiers of the working tree that the tree did not have before the
\* last operation.
NewUids == UidSet(elements) \ UidSet(before.elements)

\* The last add put exactly one node in the tree, under an identifier that the
\* caller's document does not have and no other node of the tree carries.
OneNodeAdded ==
  /\ NodeCount(elements) = NodeCount(before.elements) + 1
  /\ Cardinality(NewUids) = 1
  /\ NewUids \cap UidSet(InputElements) = {}
  /\ UidsDistinct(elements)

\* C11, as stated: every add, whatever its anchor and element type, leaves
\* exactly one new node in the document, under an identifier absent from the
\* caller's document and carried by no other node.
C11_EveryAddInsertsOneNode == Ran("add") => OneNodeAdded

\* C11, amended: an add of a group, text or field whose anchor is the root
\* sentinel or names a node leaves exactly one new node in the document, under
\* an identifier absent from the caller's document and carried by no other
\* node; any other add leaves the tree as it was.
C11_PlacedAddInsertsOneNode ==
  Ran("add") =>
    IF AddBuilds(lastOp)
       /\ (lastOp.after_uid = "$root" \/ RefResolves(before, lastOp.after_uid))
    THEN OneNodeAdded
    ELSE elements = before.elements

\* An add has put its node inside the group an earlier add of the batch
\* registered under an alias.
C11_Witness ==
  /\ Ran("add") /\ lastOp.after_uid = "$g1" /\ RefResolves(before, "$g1")
  /\ OneNodeAdded
  /\ Get(prevOp, "type") = "add"

\* The forest without the nodes whose identifier is in gone and without what
\* is below them; the other nodes keep their parent and their order.
RECURSIVE Prune(_, _)
Prune(list, gone) ==
  IF list = <<>> THEN <<>>
  ELSE IF Head(list).uid \in gone THEN Prune(Tail(list), gone)
  ELSE <<[Head(list) EXCEPT !.elements = Prune(@, gone)]>> \o Prune(Tail(list), gone)

\* C12: after a delete whose target names a node, no identifier of the target
\* or of its descendants is left in the document, and every other node is
\* where it was, under the same parent and in the same order.
C12_DeleteRemovesSubtree ==
  (Ran("delete") /\ RefResolves(before, lastOp.uid)) =>
    /\ UidSet(elements) \cap UidSet(<<RefNode(before, lastOp.uid)>>) = {}
    /\ elements = Prune(before.elements, {RefUid(before.aliases, lastOp.uid)})

\* A delete has taken out a group that had a child, after an earlier
\* operation of the batch changed the tree.
C12_Witness ==
  /\ Ran("delete") /\ RefResolves(before, lastOp.uid)
  /\ RefNode(before, lastOp.uid).elements # <<>>
  /\ elements # <<>>
  /\ before.elements # InputElements

\* An identifier no node carries.
NoNode == "u0"

\* The reference with an alias replaced by what the table holds for it: the
\* identifier the alias is bound to, or an identifier that names no node when
\* the alias is not registered.  The root sentinel is left alone.
Concretize(al, ref) ==
  IF StartsWithDollar(ref) /\ ref # "$root"
  THEN IF HasKey(al, Slice1(ref)) THEN al[Slice1(ref)] ELSE NoNode
  ELSE ref

ConcreteOp(al, op) ==
  [f \in DOMAIN op |->
     IF f \in {"after_uid", "uid", "target"} THEN Concretize(al, op[f]) ELSE op[f]]

UsesAlias(op) ==
  \E f \in {"after_uid", "uid", "target"} :
    StartsWithDollar(Get(op, f)) /\ Get(op, f) # "$root"

\* The identifier counter the last operation started from.
NextUidBefore ==
  IF Get(lastOp, "type") = "add" /\ AddBuilds(lastOp) THEN nextUid - 1 ELSE nextUid

\* The tree an add, edit, move or delete leaves when run from the snapshot.
TreeAfter(snapshot, op, next) ==
  CASE op.type = "add" ->
         applyAdd(snapshot.elements, snapshot.ModelAttribute, snapshot.aliases, next,
                  op).elements
    [] op.type = "edit" ->
         applyEdit(snapshot.elements, snapshot.ModelAttribute, snapshot.aliases, next,
                   op).elements
    [] op.type = "move" ->
         applyMove(snapshot.elements, snapshot.ModelAttribute, snapshot.aliases, next,
                   op).elements
    [] op.type = "delete" ->
         applyDelete(snapshot.elements, snapshot.ModelAttribute, snapshot.aliases, next,
                     op).elements

\* The alias table after an operation: an add that built a node and carries
\* an alias binds the alias to the node's identifier, replacing an earlier
\* binding; nothing else changes the table.
AliasTableFollowsBatch ==
  pc \in {"loop", "done"} /\ Get(lastOp, "type") # "none" =>
    IF Get(lastOp, "type") = "add" /\ AddBuilds(lastOp) /\ Truthy(lastOp.alias)
    THEN /\ aliases = Put(before.aliases, lastOp.alias, Uid(nextUid - 1))
         /\ Uid(nextUid - 1) \notin UidSet(before.elements)
         /\ NewUids \subseteq {aliases[lastOp.alias]}
    ELSE aliases = before.aliases

\* Scenario A up to its second operation: the batch began with an add of the
\* group "Section A" at the root under alias g1, then added the text "Hello"
\* inside $g1, and its third operation was the edit of $g1 to hide_label.
ScenarioA ==
  /\ pc \in {"loop", "done"} /\ nOps = 3
  /\ prevBefore.aliases = ("g1" :> Uid(FirstFreshUid))
  /\ Len(prevBefore.elements) = Len(InputElements) + 1
  /\ SubSeq(prevBefore.elements, 1, Len(InputElements)) = InputElements
  /\ prevBefore.elements[Len(prevBefore.elements)].uid = Uid(FirstFreshUid)
  /\ prevBefore.elements[Len(prevBefore.elements)].label = <<"Section", "A">>
  /\ prevOp.type = "add" /\ prevOp.element_type = "text"
  /\ prevOp.after_uid = "$g1" /\ prevOp.position = "inside"
  /\ lastOp.type = "edit" /\ lastOp.uid = "$g1"

ScenarioAResult ==
  LET g == elements[Len(elements)]
  IN  /\ Len(elements) = Len(InputElements) + 1
      /\ SubSeq(elements, 1, Len(InputElements)) = InputElements
      /\ g.element_type = "group" /\ g.uid = Uid(FirstFreshUid)
      /\ g.label = <<"Section", "A">>
      /\ g.config.hide_label = "true"
      /\ Len(g.elements) = 1
      /\ g.elements[1].element_type = "text"
      /\ g.elements[1].config.text = <<Word("plain", "Hello")>>
      /\ g.elements[1].elements = <<>>

\* Two adds of the batch carried the alias g1 and both nodes are in the tree;
\* the third operation edited $g1.
RegisteredTwice ==
  /\ pc \in {"loop", "done"} /\ nOps = 3
  /\ prevOp.type = "add" /\ AddBuilds(prevOp) /\ prevOp.alias = "g1"
  /\ HasKey(prevBefore.aliases, "g1")
  /\ prevBefore.aliases["g1"] \in UidSet(prevBefore.elements)
  /\ before.aliases["g1"] \in UidSet(before.elements)
  /\ lastOp.type = "edit" /\ lastOp.uid = "$g1"

\* The edit reached the node of the later add and left the earlier one alone.
LatestWins ==
  /\ before.aliases["g1"] # prevBefore.aliases["g1"]
  /\ NodeAt(elements, PathFrom(elements, before.aliases["g1"], 1)).config.hide_label
       = "true"
  /\ NodeAt(elements, PathFrom(elements, prevBefore.aliases["g1"], 1)).config.hide_label
       = "0"

\* C13: the alias table holds, for each alias, the identifier of the node
\* built by the latest add that carried it; an add, edit, move or delete that
\* refers to "$a" acts as with that identifier in its place, and as with an
\* identifier that names no node when no earlier add registered a; the batch
\* of Scenario A ends with one new root group "Section A" with
\* hide_label = true and exactly one text child "Hello".
C13_AliasesFollowBatchOrder ==
  /\ AliasTableFollowsBatch
  /\ (pc \in {"loop", "done"} /\ Get(lastOp, "type") \in {"add", "edit", "move", "delete"}
        /\ UsesAlias(lastOp))
       => elements = TreeAfter(before, ConcreteOp(before.aliases, lastOp), NextUidBefore)
  /\ ScenarioA => ScenarioAResult
  /\ RegisteredTwice => LatestWins

\* The batch of Scenario A has run to its end.
C13_Witness == ScenarioA /\ pc = "done" /\ ScenarioAResult

\* A batch registered the alias g1 twice and then edited $g1.
LatestRegistrationReached == RegisteredTwice /\ LatestWins

\* C14: an alias registered by an earlier add is accepted in every addressing
\* field: a clone_subtree whose source_uid is "$a" inserts a copy of the node
\* bound to a, a replace_subtree whose target_uid is "$a" puts its structure
\* at that node, and a move whose uid or target is "$a" acts as with the
\* bound identifier.
C14_AliasesInEveryField ==
  /\ (Ran("clone_subtree") /\ StartsWithDollar(lastOp.source_uid)
        /\ RefResolves(before, lastOp.source_uid))
       => NodeCount(elements)
            = NodeCount(before.elements) + NodeCount(<<RefNode(before, lastOp.source_uid)>>)
  /\ (Ran("replace_subtree") /\ HasStructure(lastOp)
        /\ StartsWithDollar(lastOp.target_uid) /\ RefResolves(before, lastOp.target_uid))
       => elements # before.elements
  /\ (Ran("move") /\ UsesAlias(lastOp))
       => elements = TreeAfter(before, ConcreteOp(before.aliases, lastOp), nextUid)

\* The last operation names the root sentinel in an addressing field.
RefersToRoot(op) == \E f \in {"after_uid", "uid", "target"} : Get(op, f) = "$root"

\* C15: "$root" is never looked up in the alias table: when an earlier add
\* registered the alias "root", an add, edit, move or delete that refers to
\* "$root" is not directed to the node bound to that alias, which stays in
\* the tree as it was.
C15_RootSentinelNeverResolved ==
  (/\ pc \in {"loop", "done"}
   /\ Get(lastOp, "type") \in {"add", "edit", "move", "delete"}
   /\ RefersToRoot(lastOp)
   /\ HasKey(before.aliases, "root")
   /\ before.aliases["root"] \in UidSet(before.elements))
    => /\ before.aliases["root"] \in UidSet(elements)
       /\ NodeAt(elements, PathFrom(elements, before.aliases["root"], 1))
            = NodeAt(before.elements, PathFrom(before.elements, before.aliases["root"], 1))

\* The last operation is a clone_subtree whose source_uid is the identifier
\* of a node: findElementByUid found the source.
Cloned == Ran("clone_subtree") /\ lastOp.source_uid \in UidSet(before.elements)

SourcePathBefore == PathFrom(before.elements, lastOp.source_uid, 1)
SourceBefore == NodeAt(before.elements, SourcePathBefore)
\* Where the copy is expected: in the source's parent list, at the source's
\* place when position is "before" (the source shifts by one), and right
\* after the source otherwise.
ClonePath ==
  IF Get(lastOp, "position") = "before" THEN SourcePathBefore
  ELSE Front(SourcePathBefore) \o <<Last(SourcePathBefore) + 1>>
SourcePathAfter ==
  IF Get(lastOp, "position") = "before"
  THEN Front(SourcePathBefore) \o <<Last(SourcePathBefore) + 1>>
  ELSE SourcePathBefore
HasNodeAt(els, path) ==
  Len(ListAt(els, Front(path))) >= Last(path)
Clone == NodeAt(elements, ClonePath)

\* C16: after a clone_subtree with a source that was found and a non-empty
\* field suffix S, every field reference of the copy carries the field name
\* of the corresponding source node followed by S, the source keeps its own
\* field names, and the registry has an entry for every suffixed name.
C16_CloneSuffixesFieldNames ==
  (Cloned /\ Truthy(lastOp.field_suffix)) =>
    /\ HasNodeAt(elements, ClonePath)
    /\ Len(Nodes(<<Clone>>)) = Len(Nodes(<<SourceBefore>>))
    /\ \A i \in 1..Len(Nodes(<<SourceBefore>>)) :
         LET s == Nodes(<<SourceBefore>>)[i]
             c == Nodes(<<Clone>>)[i]
         IN  s.element_type = "attribute" =>
               /\ c.element_type = "attribute"
               /\ c.name = s.name \o lastOp.field_suffix
               /\ c.name \in RegistryNames(modelAttrs)
    /\ NodeAt(elements, SourcePathAfter) = SourceBefore

\* A clone with a suffix has copied a group that holds two field references,
\* one of them added earlier in the batch, and the registry got both names.
C16_Witness ==
  /\ Cloned /\ Truthy(lastOp.field_suffix)
  /\ {"amount_y2", "budget_y2"} \subseteq RegistryNames(modelAttrs)
  /\ "amount_y2" \notin RegistryNames(before.ModelAttribute)
  /\ Cardinality({i \in 1..Len(Nodes(<<Clone>>)) :
                    Nodes(<<Clone>>)[i].element_type = "attribute"}) = 2

\* The variants and the child order of a subtree, identifiers and content
\* left out.
RECURSIVE Shape(_)
Shape(node) ==
  [element_type |-> node.element_type,
   elements |-> [i \in 1..Len(node.elements) |-> Shape(node.elements[i])]]

\* C17: after a clone_subtree with a source that was found, the copy has the
\* shape of the source, carries identifiers no other node of the document
\* has, sits in the source's parent list right after the source (right
\* before it for position "before"), the source and the rest of the tree are
\* as they were, and the node count has grown by the size of the source.
C17_CloneIsFreshAdjacentCopy ==
  Cloned =>
    /\ HasNodeAt(elements, ClonePath)
    /\ Shape(Clone) = Shape(SourceBefore)
    /\ UidSet(<<Clone>>) \cap UidSet(before.elements) = {}
    /\ UidsDistinct(elements)
    /\ NodeAt(elements, SourcePathAfter) = SourceBefore
    /\ Prune(elements, {Clone.uid}) = before.elements
    /\ NodeCount(elements) = NodeCount(before.elements) + NodeCount(<<SourceBefore>>)

\* A clone with position "before" has copied a group with a child that is
\* not the last of its parent's list.
C17_Witness ==
  /\ Cloned /\ Get(lastOp, "position") = "before"
  /\ SourceBefore.elements # <<>>
  /\ Len(ListAt(before.elements, Front(SourcePathBefore))) > Last(SourcePathBefore)
  /\ NodeCount(elements) > NodeCount(before.elements) + 1

\* The last operation is a replace_subtree with a structure whose target_uid
\* is the identifier of a node: findParentOf found the target.
Replaced ==
  /\ Ran("replace_subtree") /\ HasStructure(lastOp)
  /\ lastOp.target_uid \in UidSet(before.elements)

TargetPathBefore == PathFrom(before.elements, lastOp.target_uid, 1)
TargetBefore == NodeAt(before.elements, TargetPathBefore)
\* The target's parent list before and after the operation, and the target's
\* place in it (counted from 1).
SiblingsBefore == ListAt(before.elements, Front(TargetPathBefore))
SiblingsAfter == ListAt(elements, Front(TargetPathBefore))
TargetIndex == Last(TargetPathBefore)

\* The node is the structure of the operation under new identifiers.
IsNewStructure(node) ==
  /\ node = heap["newStructure"]
  /\ Shape(node) = Shape(lastOp.structure)
  /\ UidSet(<<node>>) \cap UidSet(before.elements) = {}

\* C18: a replace_subtree with a structure and a target that was found leaves
\* the length of the target's parent list unchanged for position "replace",
\* with the new structure at the target's index; for "before" or "after" the
\* list is longer by one, the new structure right before or right after the
\* target, which stays.  The other entries of the list are untouched.
C18_ReplaceSubtreeChildCount ==
  Replaced =>
    LET i == TargetIndex
        n == Len(SiblingsBefore)
    IN  CASE Get(lastOp, "position") = "replace" ->
               /\ Len(SiblingsAfter) = n
               /\ IsNewStructure(SiblingsAfter[i])
               /\ \A j \in 1..n : j # i => SiblingsAfter[j] = SiblingsBefore[j]
          [] Get(lastOp, "position") = "before" ->
               /\ Len(SiblingsAfter) = n + 1
               /\ IsNewStructure(SiblingsAfter[i])
               /\ SiblingsAfter[i + 1] = TargetBefore
               /\ \A j \in 1..n : SiblingsAfter[IF j < i THEN j ELSE j + 1] = SiblingsBefore[j]
          [] OTHER ->
               /\ Len(SiblingsAfter) = n + 1
               /\ SiblingsAfter[i] = TargetBefore
               /\ IsNewStructure(SiblingsAfter[i + 1])
               /\ \A j \in 1..n : SiblingsAfter[IF j <= i THEN j ELSE j + 1] = SiblingsBefore[j]

\* A replace_subtree with position "replace" has put a structure in the place
\* of a nested group, in a list of more than one node.
C18_Witness ==
  /\ Replaced /\ Get(lastOp, "position") = "replace"
  /\ Len(TargetPathBefore) > 1 /\ Len(SiblingsBefore) > 1
  /\ Len(SiblingsAfter) = Len(SiblingsBefore)
  /\ SiblingsAfter[TargetIndex] # TargetBefore

\* C19: after a replace_subtree with a structure and a target that was found,
\* every node of the inserted structure, at every depth, carries an
\* identifier generated by this operation: the identifiers are pairwise
\* distinct and none of them was in the document, whatever identifiers the
\* structure came with; for position "replace" no identifier of the target or
\* of its descendants is left in the document.
C19_ReplaceSubtreeFreshIdentifiers ==
  Replaced =>
    LET new == heap["newStructure"]
        size == NodeCount(<<lastOp.structure>>)
    IN  /\ new \in NodeSet(elements)
        /\ NodeCount(<<new>>) = size
        /\ UidsDistinct(<<new>>)
        /\ UidSet(<<new>>) = {Uid(k) : k \in (nextUid - size)..(nextUid - 1)}
        /\ UidSet(<<new>>) \cap UidSet(before.elements) = {}
        /\ Get(lastOp, "position") = "replace"
             => UidSet(<<TargetBefore>>) \cap UidSet(elements) = {}

\* A structure whose two nodes came with the same identifier, one that the
\* document already has, has replaced a group with a child.
C19_Witness ==
  /\ Replaced /\ Get(lastOp, "position") = "replace"
  /\ ~UidsDistinct(<<lastOp.structure>>)
  /\ UidSet(<<lastOp.structure>>) \cap UidSet(before.elements) # {}
  /\ TargetBefore.elements # <<>>
  /\ heap["newStructure"] \in NodeSet(elements)

\* The registry `now` begins with the entries of `earlier`, unchanged and in
\* the same order.
Extends(now, earlier) ==
  /\ Len(now) >= Len(earlier)
  /\ SubSeq(now, 1, Len(earlier)) = earlier

\* The field names the field references of the tree use.
FieldNamesInUse(els) ==
  {n.name : n \in {m \in NodeSet(els) : m.element_type = "attribute"}}

\* C20: the attribute registry only grows during a batch: after every
\* operation every entry that was there before the operation, and every entry
\* of the caller's document, is still there unchanged, also when a delete or
\* a replace_subtree took out the field references that used it.
C20_RegistryOnlyGrows ==
  pc \in {"loop", "done"} =>
    /\ Extends(modelAttrs, InputDocument.ModelAttribute)
    /\ Get(lastOp, "type") # "none" => Extends(modelAttrs, before.ModelAttribute)

\* After an earlier operation added an entry, a delete or a replace_subtree
\* has taken the last field reference named "amount" out of the tree.
C20_Witness ==
  /\ pc \in {"loop", "done"}
  /\ Get(lastOp, "type") \in {"delete", "replace_subtree"}
  /\ "amount" \in FieldNamesInUse(before.elements)
  /\ "amount" \notin FieldNamesInUse(elements)
  /\ "amount" \in RegistryNames(modelAttrs)
  /\ Len(modelAttrs) > Len(InputDocument.ModelAttribute)

\* C21: the field names of the attribute registry stay unique: after every
\* operation of a batch no two registry entries carry the same name, also
\* after repeated adds of a field with one field_name and repeated
\* clone_subtree operations with one suffix.
C21_RegistryNamesUnique ==
  pc \in {"loop", "done"} => Cardinality(RegistryNames(modelAttrs)) = Len(modelAttrs)

\* A clone with a suffix has copied a subtree that holds two field references
\* of one name, and the registry got one entry for the suffixed name.
C21_Witness ==
  /\ Cloned /\ Truthy(lastOp.field_suffix)
  /\ Cardinality({i \in 1..Len(Nodes(<<Clone>>)) :
                    Nodes(<<Clone>>)[i].element_type = "attribute"
                    /\ Nodes(<<Clone>>)[i].name = "amount_y2"}) = 2
  /\ Len(modelAttrs) = Len(before.ModelAttribute) + 1

\* A field with a field_name the registry already holds, registered by an
\* earlier add of the batch, has been added again.
RepeatedAddReached ==
  /\ Ran("add") /\ lastOp.element_type = "field"
  /\ Get(prevOp, "type") = "add" /\ prevOp.element_type = "field"
  /\ lastOp.field_name = prevOp.field_name
  /\ modelAttrs = before.ModelAttribute

\* The styling keys a text or a field reference accepts.
SpacingAndAlignment ==
  {"margin_top", "margin_bottom", "margin_left", "margin_right",
   "padding_top", "padding_bottom", "padding_left", "padding_right", "alignment"}

\* The last operation is an edit whose target names a node; the node before
\* and after the edit.
Edited == Ran("edit") /\ RefResolves(before, lastOp.uid)
EditedBefore == RefNode(before, lastOp.uid)
EditedAfter ==
  NodeAt(elements, PathFrom(before.elements, RefUid(before.aliases, lastOp.uid), 1))

\* The parts of the edit other than styling and content have been applied.
OtherPartsApplied ==
  /\ lastOp.label # <<>> => EditedAfter.config.label = lastOp.label
  /\ lastOp.required # Undefined => EditedAfter.config.required = lastOp.required
  /\ \A k \in DOMAIN lastOp.config \cap EditConfigKeys :
       EditedAfter.config[k] = lastOp.config[k]
  /\ \A k \in DOMAIN lastOp.visibility \cap EditVisibilityKeys :
       EditedAfter.visibility[k] = lastOp.visibility[k]

\* C22: an edit writes a styling key of its patch to a text or a field
\* reference only when the key is one of the spacing and alignment keys; every
\* other key of the patch is dropped on its own, the node's styling being for
\* that key what it was; a group takes every key; the other parts of the edit
\* are applied all the same.
C22_StylingAllowList ==
  Edited =>
    /\ \A k \in DOMAIN lastOp.styling :
         IF EditedBefore.element_type = "group" \/ k \in SpacingAndAlignment
         THEN HasKey(EditedAfter.styling, k) /\ EditedAfter.styling[k] = lastOp.styling[k]
         ELSE /\ HasKey(EditedAfter.styling, k) <=> HasKey(EditedBefore.styling, k)
              /\ Get(EditedAfter.styling, k) = Get(EditedBefore.styling, k)
    /\ \A k \in DOMAIN EditedBefore.styling \ DOMAIN lastOp.styling :
         Get(EditedAfter.styling, k) = EditedBefore.styling[k]
    /\ DOMAIN EditedAfter.styling \subseteq DOMAIN EditedBefore.styling \cup DOMAIN lastOp.styling
    /\ OtherPartsApplied

\* An edit with a permitted and a non-permitted styling key has reached a
\* text or a field reference: the permitted key was written, the other not,
\* and the label of the same edit was applied.
C22_Witness ==
  /\ Edited /\ EditedBefore.element_type \in {"text", "attribute"}
  /\ DOMAIN lastOp.styling \cap SpacingAndAlignment # {}
  /\ DOMAIN lastOp.styling \ SpacingAndAlignment # {}
  /\ EditedAfter.styling["margin_top"] = "5"
  /\ ~HasKey(EditedAfter.styling, "background_color")
  /\ EditedAfter.config.label = <<"Renamed">>

\* The same edit has reached a group, which took both keys.
GroupStylingReached ==
  /\ Edited /\ EditedBefore.element_type = "group"
  /\ HasKey(EditedAfter.styling, "background_color")

\* The text of the one text node of a colour-rewrite document.
TextNow == elements[1].config.text

\* C23: the colour rewrite is idempotent: a bulk_replace that repeats the
\* colour rewrite of the operation before it leaves the text as that
\* operation left it, and replaceColorsInHtml applied to its own output, for
\* every family and every replacement colour, returns that output.
C23_ColorRewriteIdempotent ==
  /\ (Ran("bulk_replace") /\ prevOp = lastOp) => elements = before.elements
  /\ pc \in {"loop", "done"} =>
       \A f \in ColorFamilies, c \in ColorTargets :
         LET once == replaceColorsInHtml(TextNow, f, c)
         IN  replaceColorsInHtml(once, f, c) = once

\* A rewrite changed a text with a keyword in a declaration and a literal of
\* the family; the same rewrite, run again, left the result alone.
C23_Witness ==
  /\ Ran("bulk_replace") /\ prevOp = lastOp
  /\ prevBefore.elements # before.elements
  /\ elements = before.elements
  /\ \E i \in 1..Len(prevBefore.elements[1].config.text) :
       prevBefore.elements[1].config.text[i].k = "word"
       /\ prevBefore.elements[1].config.text[i] # before.elements[1].config.text[i]
  /\ \E i \in 1..Len(prevBefore.elements[1].config.text) :
       prevBefore.elements[1].config.text[i].k \in {"hex", "hex3", "rgb", "rgba"}
       /\ prevBefore.elements[1].config.text[i] # before.elements[1].config.text[i]

\* The children of the node with the identifier; the top-level list for the
\* root sentinel.
ChildrenOf(els, parent) ==
  IF parent = "$root" THEN els ELSE NodeAt(els, PathFrom(els, parent, 1)).elements

\* The identifier of the parent of the node at the path; the root sentinel for
\* a top-level node.
ParentAt(els, path) ==
  IF Len(path) = 1 THEN "$root" ELSE NodeAt(els, Front(path)).uid

\* The last operation is a move whose source X and destination Y name nodes,
\* Y outside the subtree of X.
MovedX == RefUid(before.aliases, lastOp.uid)
MovedY == RefUid(before.aliases, lastOp.target)
Moved ==
  /\ Ran("move")
  /\ RefResolves(before, lastOp.uid) /\ RefResolves(before, lastOp.target)
  /\ MovedY \notin UidSet(<<RefNode(before, lastOp.uid)>>)

\* C24: after a move with a resolved source X and a resolved destination Y
\* outside X's subtree, X is the first child of Y for inside_start and
\* inside_top, the last child of Y for inside and inside_end, the sibling
\* right before Y for before and the sibling right after Y otherwise; the list
\* X came from has lost X and nothing else (it is one shorter unless X went
\* back into it), and nothing else in the tree has changed.
C24_MovePlacement ==
  Moved =>
    LET px == PathFrom(elements, MovedX, 1)
        py == PathFrom(elements, MovedY, 1)
        from == ParentAt(before.elements, PathFrom(before.elements, MovedX, 1))
        position == Get(lastOp, "position")
    IN  /\ px # <<>> /\ py # <<>>
        /\ NodeAt(elements, px) = RefNode(before, lastOp.uid)
        /\ Prune(elements, {MovedX}) = Prune(before.elements, {MovedX})
        /\ NodeCount(elements) = NodeCount(before.elements)
        /\ CASE position \in {"inside_start", "inside_top"} -> px = py \o <<1>>
             [] position \in {"inside", "inside_end"} ->
                  px = py \o <<Len(NodeAt(elements, py).elements)>>
             [] position = "before" -> Front(px) = Front(py) /\ Last(px) = Last(py) - 1
             [] OTHER -> Front(px) = Front(py) /\ Last(px) = Last(py) + 1
        /\ Len(ChildrenOf(elements, from))
             = IF ParentAt(elements, px) = from
               THEN Len(ChildrenOf(before.elements, from))
               ELSE Len(ChildrenOf(before.elements, from)) - 1

\* A node has moved to the front of the children of a group that had a child
\* already, out of a list that kept another child.
C24_Witness ==
  /\ Moved /\ Get(lastOp, "position") \in {"inside_start", "inside_top"}
  /\ Len(NodeAt(elements, PathFrom(elements, MovedY, 1)).elements) > 1
  /\ NodeAt(elements, PathFrom(elements, MovedY, 1)).elements[1].uid = MovedX
  /\ ChildrenOf(elements,
                ParentAt(before.elements, PathFrom(before.elements, MovedX, 1))) # <<>>

\* A node has moved to the place right after a sibling of its own list.
SameListMoveReached ==
  /\ Moved /\ Get(lastOp, "position") \notin {"inside", "inside_end", "inside_start",
                                              "inside_top"}
  /\ ParentAt(elements, PathFrom(elements, MovedX, 1))
       = ParentAt(before.elements, PathFrom(before.elements, MovedX, 1))
  /\ elements # before.elements

\* The second of two calls in a row is running or has returned.
SecondCall == dataRef = "data2" /\ pc \in {"loop", "done"}

\* The document the first call returned holds the node its batch registered
\* under the alias g1: the root group "Section A".
FirstCallRegistered ==
  \E i \in 1..Len(heap["data"].elements) :
    heap["data"].elements[i].label = <<"Section", "A">>

\* C25: the alias table belongs to one call: a call starts with an empty
\* table, whatever the call before it registered, its table holds only what
\* its own adds registered, and an operation of the second call that refers
\* to an alias registered in the first call only acts as an operation whose
\* target names no node.
C25_AliasesScopedToBatch ==
  /\ (pc = "loop" /\ nOps = 0) => aliases = EmptyMap
  /\ AliasTableFollowsBatch
  /\ (SecondCall /\ Get(lastOp, "type") \in {"add", "edit", "move", "delete"}
        /\ UsesAlias(lastOp))
       => elements = TreeAfter(before, ConcreteOp(before.aliases, lastOp), NextUidBefore)
  /\ (SecondCall /\ Get(lastOp, "type") \in {"edit", "delete", "move"}
        /\ lastOp.uid = "$g1" /\ ~HasKey(before.aliases, "g1"))
       => elements = before.elements

\* The first call registered g1 and returned; the second call edited $g1 as
\* its first operation and left the document as the first call returned it.
C25_Witness ==
  /\ SecondCall /\ pc = "done" /\ nOps = 1
  /\ FirstCallRegistered
  /\ lastOp.type = "edit" /\ lastOp.uid = "$g1"
  /\ elements = heap["data"].elements

\* The last operation was a colour rewrite of the text with a hex literal as
\* replacement colour.
HexRewrite ==
  /\ Ran("bulk_replace") /\ lastOp.find_color # Undefined
  /\ lastOp.replace_color.k \in {"hex", "hex3"}

TextBefore == before.elements[1].config.text

\* The channel values of a hex literal: a three-digit one doubles each digit.
Channels(hex) ==
  IF hex.k = "hex3" THEN <<17 * hex.r, 17 * hex.g, 17 * hex.b>>
  ELSE <<hex.r, hex.g, hex.b>>

\* What a colour rewrite makes of one token, as stated: a keyword changes only
\* in a declaration, a hex literal of the family becomes the target hex, an
\* rgb()/rgba() literal of the family keeps its form and its alpha part and
\* takes the target's channel values.
RewrittenAsStated(old, new, family, target) ==
  CASE old.k = "word" -> old.ctx = "plain" => new = old
    [] old.k \in {"hex", "hex3"} ->
         isColorInFamily(old, family) => new = [target EXCEPT !.ctx = old.ctx]
    [] old.k \in {"rgb", "rgba"} ->
         isRgbInFamily(old.r, old.g, old.b, family)
           => /\ new.k = old.k /\ new.v = old.v
              /\ <<new.r, new.g, new.b>> = Channels(target)

\* C26: a colour rewrite with a hex replacement colour changes a keyword only
\* where it is the value of a color, background-color or border-color
\* declaration, replaces the hex literals of the family by the target hex and
\* the rgb()/rgba() literals of the family by the target's channel values in
\* rgb()/rgba() form, alpha part kept.
C26_ColorRewriteByContext ==
  HexRewrite =>
    /\ Len(TextNow) = Len(TextBefore)
    /\ \A i \in 1..Len(TextNow) :
         RewrittenAsStated(TextBefore[i], TextNow[i], lastOp.find_color,
                           getTargetColor(lastOp.replace_color))

\* The same for six-digit replacement colours only.
LongHexRewriteAsStated ==
  (HexRewrite /\ lastOp.replace_color.k = "hex") =>
    /\ Len(TextNow) = Len(TextBefore)
    /\ \A i \in 1..Len(TextNow) :
         RewrittenAsStated(TextBefore[i], TextNow[i], lastOp.find_color,
                           getTargetColor(lastOp.replace_color))

\* A rewrite to a three-digit hex left text that is no colour literal where
\* an rgb()/rgba() literal of the family stood.
ShortHexBreaksRgb ==
  /\ HexRewrite /\ lastOp.replace_color.k = "hex3"
  /\ \E i \in 1..Len(TextNow) :
       TextBefore[i].k \in {"rgb", "rgba"} /\ TextNow[i].k = "word"

\* The last operation is an add of a group, text or field whose anchor names
\* a node A.
AddedAt ==
  /\ Ran("add") /\ AddBuilds(lastOp)
  /\ RefResolves(before, lastOp.after_uid)
AnchorA == RefUid(before.aliases, lastOp.after_uid)
AddedUid == CHOOSE u \in NewUids : TRUE

\* C27: after an add whose anchor names a node A, the new node is the sibling
\* right before A for position "before", the last child of A for "inside" and
\* "inside_end", the first child of A for "inside_start" and "inside_top",
\* and the sibling right after A for any other or missing position; without
\* the new node the tree is the tree before the add, so every other node has
\* kept its parent and its place among its siblings.
C27_AddPlacement ==
  AddedAt =>
    /\ Cardinality(NewUids) = 1
    /\ LET pn == PathFrom(elements, AddedUid, 1)
           pa == PathFrom(elements, AnchorA, 1)
           position == Get(lastOp, "position")
       IN  /\ pa # <<>>
           /\ NodeAt(elements, pn).elements = <<>>
           /\ Prune(elements, {AddedUid}) = before.elements
           /\ CASE position = "before" -> Front(pn) = Front(pa) /\ Last(pn) = Last(pa) - 1
                [] position \in {"inside", "inside_end"} ->
                     pn = pa \o <<Len(NodeAt(elements, pa).elements)>>
                [] position \in {"inside_start", "inside_top"} -> pn = pa \o <<1>>
                [] OTHER -> Front(pn) = Front(pa) /\ Last(pn) = Last(pa) + 1

\* An add has put its node right before a nested group, between two siblings
\* that were there before.
C27_Witness ==
  /\ AddedAt /\ Get(lastOp, "position") = "before" /\ AnchorA = "u3"
  /\ LET pa == PathFrom(elements, "u3", 1)
     IN  /\ Last(pa) = 3
         /\ ListAt(elements, Front(pa))[2].uid = AddedUid
         /\ ListAt(elements, Front(pa))[1].uid = "u2"

\* Adds with the positions inside_end, inside_top and one that is none of the
\* named ones have placed their nodes.
InsideEndReached == AddedAt /\ Get(lastOp, "position") = "inside_end"
InsideTopReached ==
  /\ AddedAt /\ Get(lastOp, "position") = "inside_top"
  /\ Len(NodeAt(elements, PathFrom(elements, AnchorA, 1)).elements) > 1
OtherPositionReached == AddedAt /\ Get(lastOp, "position") = "bottom"

\* C28: an edit that carries a content value writes it as the text of a text
\* node and of no other node: on a group or a field reference the text entry
\* of the configuration is what it was, absent if it was absent; the label,
\* the flags, the configuration keys and the visibility keys of the same edit
\* are applied on every variant.
C28_ContentOnlyOnText ==
  (Edited /\ lastOp.content # <<>>) =>
    /\ IF EditedBefore.element_type = "text"
       THEN EditedAfter.config.text = lastOp.content
       ELSE /\ HasKey(EditedAfter.config, "text") <=> HasKey(EditedBefore.config, "text")
            /\ Get(EditedAfter.config, "text") = Get(EditedBefore.config, "text")
    /\ OtherPartsApplied
    /\ lastOp.read_only # Undefined => EditedAfter.config.read_only = lastOp.read_only

\* An edit with a content value, a label, flags, a configuration key and a
\* visibility key has reached a group: everything but the content was applied.
C28_Witness ==
  /\ Edited /\ lastOp.content # <<>> /\ EditedBefore.element_type = "group"
  /\ ~HasKey(EditedAfter.config, "text")
  /\ EditedAfter.config.label = <<"Renamed">> /\ EditedBefore.config.label # <<"Renamed">>
  /\ EditedAfter.config.required = "false"
  /\ EditedAfter.config.collapsible = "1"
  /\ EditedAfter.visibility.visible_show = "false"

\* The same edit has reached a field reference, and a text, whose text it
\* replaced.
ContentOnFieldReached ==
  /\ Edited /\ lastOp.content # <<>> /\ EditedBefore.element_type = "attribute"
  /\ lastOp.required = "false" /\ EditedAfter.config.required = "false"
ContentOnTextReached ==
  /\ Edited /\ lastOp.content # <<>> /\ EditedBefore.element_type = "text"
  /\ EditedBefore.config.text # lastOp.content
  /\ EditedAfter.config.text = lastOp.content

\* A node without its children.
Own(node) == [node EXCEPT !.elements = <<>>]

\* The identifiers in the list of the last bulk_replace.
Listed == {lastOp.uids[i] : i \in 1..Len(lastOp.uids)}

NodeBefore(u) == NodeAt(before.elements, PathFrom(before.elements, u, 1))
NodeNow(u) == NodeAt(elements, PathFrom(before.elements, u, 1))

\* C29: a bulk_replace gives its patch to every node whose identifier is in
\* the list, whatever stands before it in the list, an identifier that names
\* no node included; it changes no node whose identifier is not in the list,
\* and it leaves every node where it was.
C29_BulkPerIdentifier ==
  Ran("bulk_replace") =>
    /\ UidSeq(elements) = UidSeq(before.elements)
    /\ \A u \in UidSet(before.elements) :
         /\ PathFrom(elements, u, 1) = PathFrom(before.elements, u, 1)
         /\ Own(NodeNow(u)) = IF u \in Listed THEN Own(BulkElement(NodeBefore(u), lastOp))
                              ELSE Own(NodeBefore(u))
    /\ modelAttrs = before.ModelAttribute

\* A bulk_replace whose list starts with an identifier that names no node has
\* changed the two nodes listed after it and none of the others.
C29_Witness ==
  /\ Ran("bulk_replace") /\ lastOp.uids = <<"u0", "u2", "u1">>
  /\ "u0" \notin UidSet(before.elements)
  /\ {"u1", "u2", "u3"} \subseteq UidSet(before.elements)
  /\ NodeNow("u2") # NodeBefore("u2")
  /\ Own(NodeNow("u1")) # Own(NodeBefore("u1"))
  /\ NodeNow("u3") = NodeBefore("u3")

GroupToggles ==
  [collapsible |-> "set_collapsible", show_in_toc |-> "set_show_in_toc",
   default_open |-> "set_default_open"]

\* C30: the collapsible, show_in_toc and default_open toggles of a
\* bulk_replace are written to the listed groups and leave those keys of a
\* listed text or field reference as they were, absent if absent; set_hidden
\* = h sets visible_form and visible_show to not h on every listed node.
C30_BulkToggles ==
  Ran("bulk_replace") =>
    \A u \in Listed \cap UidSet(before.elements) :
      /\ \A k \in DOMAIN GroupToggles :
           IF NodeBefore(u).element_type = "group"
           THEN lastOp[GroupToggles[k]] # Undefined
                  => Get(NodeNow(u).config, k) = lastOp[GroupToggles[k]]
           ELSE /\ HasKey(NodeNow(u).config, k) <=> HasKey(NodeBefore(u).config, k)
                /\ Get(NodeNow(u).config, k) = Get(NodeBefore(u).config, k)
      /\ lastOp.set_hidden # Undefined
           => /\ NodeNow(u).visibility.visible_form = Not(lastOp.set_hidden)
              /\ NodeNow(u).visibility.visible_show = Not(lastOp.set_hidden)

\* A bulk_replace with all the toggles has reached a group and a text: the
\* group took the three group toggles, the text none of them, both are hidden.
C30_Witness ==
  /\ Ran("bulk_replace") /\ lastOp.set_hidden = "true" /\ lastOp.set_collapsible = "true"
  /\ {"u1", "u2"} \subseteq Listed \cap UidSet(before.elements)
  /\ NodeBefore("u1").element_type = "group" /\ NodeBefore("u2").element_type = "text"
  /\ Get(NodeBefore("u1").config, "collapsible") # "true"
  /\ NodeNow("u1").config.collapsible = "true"
  /\ NodeNow("u1").config.default_open = "false"
  /\ ~HasKey(NodeNow("u2").config, "collapsible")
  /\ NodeBefore("u2").visibility.visible_form = "true"
  /\ NodeNow("u1").visibility.visible_form = "false"
  /\ NodeNow("u2").visibility.visible_form = "false"
  /\ NodeNow("u2").visibility.visible_show = "false"

\* set_hidden = false has made hidden nodes visible again; a field reference
\* has been through the toggles.
ShownAgainReached ==
  /\ Ran("bulk_replace") /\ lastOp.set_hidden = "false"
  /\ "u2" \in Listed \cap UidSet(before.elements)
  /\ NodeBefore("u2").visibility.visible_form = "false"
  /\ NodeNow("u2").visibility.visible_form = "true"
FieldToggledReached ==
  /\ Ran("bulk_replace") /\ lastOp.set_collapsible # Undefined
  /\ "u4" \in Listed \cap UidSet(before.elements)
  /\ NodeNow("u4").visibility.visible_show = "false"

\* The last operation is a clone_subtree of a node that was found, with a
\* label find string.
ClonedWithFind == Cloned /\ lastOp.label_find # <<>>

\* Every label and configuration label of the copy is the source's with every
\* occurrence of the find string replaced, and the source is as it was.
LabelsReplaced ==
  /\ HasNodeAt(elements, ClonePath)
  /\ Len(Nodes(<<Clone>>)) = Len(Nodes(<<SourceBefore>>))
  /\ \A i \in 1..Len(Nodes(<<SourceBefore>>)) :
       LET s == Nodes(<<SourceBefore>>)[i]
           c == Nodes(<<Clone>>)[i]
       IN  /\ HasKey(s, "label") =>
                c.label = ReplaceLabel(s.label, lastOp.label_find, lastOp.label_replace)
           /\ HasKey(s.config, "label") =>
                c.config.label = ReplaceLabel(s.config.label, lastOp.label_find,
                                              lastOp.label_replace)
  /\ NodeAt(elements, SourcePathAfter) = SourceBefore

\* C31: after a clone_subtree with a label find string F and a replacement R,
\* R empty included, every occurrence of F, compared without regard to case,
\* in the label and the configuration label of every node of the copy is
\* replaced by R, and the labels of the source are unchanged.
C31_CloneReplacesLabels == ClonedWithFind => LabelsReplaced

\* The same for a replacement that is not empty.
NonEmptyReplacementAsStated ==
  (ClonedWithFind /\ lastOp.label_replace # <<>>) => LabelsReplaced

\* A clone with a replacement that is not empty has rewritten a label that
\* held the find string in another case.
LabelRewrittenReached ==
  /\ ClonedWithFind /\ lastOp.label_replace # <<>>
  /\ Clone.label # SourceBefore.label
  /\ Clone.config.label = lastOp.label_replace

\* A clone with an empty replacement has kept a label that holds the find
\* string.
EmptyReplacementKeepsLabel ==
  /\ ClonedWithFind /\ lastOp.label_replace = <<>>
  /\ SourceBefore.label = <<"Inner">>
  /\ Clone.label = <<"Inner">>

\* The structure of a forest: the identifier, the variant and the name of
\* every node, with its children in their order.
RECURSIVE Skeleton(_)
Skeleton(list) ==
  [i \in 1..Len(list) |->
     [uid |-> list[i].uid, element_type |-> list[i].element_type,
      name |-> list[i].name, elements |-> Skeleton(list[i].elements)]]

\* C32: an edit and a bulk_replace leave the structure as it was: the same
\* identifiers, every node of the same variant, under the same parent at the
\* same place among its siblings, every field reference with the same field
\* name, and the same registry.
C32_EditAndBulkKeepStructure ==
  (Ran("edit") \/ Ran("bulk_replace")) =>
    /\ Skeleton(elements) = Skeleton(before.elements)
    /\ modelAttrs = before.ModelAttribute

\* An edit has changed a field reference that has a sibling after it or a
\* parent group, and a bulk_replace has changed nodes.
C32_Witness ==
  /\ Ran("edit") /\ Edited /\ EditedBefore.element_type \in {"attribute", "text"}
  /\ EditedAfter # EditedBefore
  /\ Len(PathFrom(before.elements, EditedBefore.uid, 1)) > 1
  /\ Last(PathFrom(before.elements, EditedBefore.uid, 1))
       < Len(ListAt(before.elements, Front(PathFrom(before.elements, EditedBefore.uid, 1))))

BulkChangedReached == Ran("bulk_replace") /\ elements # before.elements

\* The last operation was a colour rewrite to a family's target colour.
Recolored == Ran("bulk_replace") /\ lastOp.replace_color.v \in NineFamilies

\* C33: the target colour of each of the nine families is classified as a
\* member of that family: after a rewrite to a family, the target written is
\* in the family, and a rewrite that searches for the family finds the
\* literals the rewrite before it wrote.
C33_TargetInOwnFamily ==
  Recolored =>
    /\ isColorInFamily(getTargetColor(lastOp.replace_color), lastOp.replace_color.v)
    /\ (Get(prevOp, "type") = "bulk_replace" /\ before.elements # prevBefore.elements
          /\ prevOp.replace_color # lastOp.replace_color)
         => elements # before.elements

\* The same for the families other than green.
OtherTargetsInOwnFamily ==
  (Recolored /\ lastOp.replace_color.v # "green") =>
    isColorInFamily(getTargetColor(lastOp.replace_color), lastOp.replace_color.v)

\* A rewrite has written the target of green; the next rewrite searched for
\* green and left the literal it should have found.
GreenNotFoundAgain ==
  /\ Recolored /\ lastOp.find_color = "green"
  /\ Get(prevOp, "type") = "bulk_replace" /\ prevOp.replace_color.v = "green"
  /\ before.elements # prevBefore.elements
  /\ lastOp.replace_color.v = "blue"
  /\ elements = before.elements
  /\ TextNow = <<Hex("decl", 0, 136, 0)>>

\* A forest without its identifiers: variant, name, label, configuration,
\* styling and visibility of every node, with its children in their order.
RECURSIVE WithoutUids(_)
WithoutUids(list) ==
  [i \in 1..Len(list) |->
     [f \in DOMAIN list[i] \ {"uid"} |->
        IF f = "elements" THEN WithoutUids(list[i].elements) ELSE list[i][f]]]

SecondRun == heap["data2"]

\* C34: two runs of the same batch on the same document, which draw different
\* identifiers, leave documents that differ in identifiers only: the same tree
\* with the same variants, names, labels, contents, configuration, styling and
\* visibility, and the same registry entries in the same order.
C34_DeterministicUpToUids ==
  pc \in {"loop", "done"} =>
    /\ WithoutUids(elements) = WithoutUids(SecondRun.elements)
    /\ modelAttrs = SecondRun.ModelAttribute
    /\ DOMAIN aliases = DOMAIN SecondRun.aliases

\* Two runs of a batch of two operations that generated nodes have returned:
\* the documents have grown, and their new identifiers differ.
C34_Witness ==
  /\ pc = "done" /\ nOps = 2
  /\ NodeCount(elements) > NodeCount(InputElements) + 1
  /\ UidSet(elements) \cap UidSet(SecondRun.elements) = UidSet(InputElements)
  /\ UidSet(elements) # UidSet(SecondRun.elements)
  /\ RegistryNames(modelAttrs) # RegistryNames(InputDocument.ModelAttribute)

\* C35: the cached export belongs to the selected stencil: whenever
\* currentExport is not null it is the export of currentStencilId, and an
\* answer to GET_EXPORT or REFRESH_EXPORT carries the export of the stencil
\* that is current when the answer is sent.
C35_CachedExportIsCurrent ==
  /\ currentExport # NoExport => currentExport.stencil = currentStencilId
  /\ ext.lastResponse.success => ext.lastResponse.data.stencil = ext.lastResponse.stencil

\* GET_EXPORT was answered from the cache with the export of a stencil other
\* than the current one, on the form editor of the current one.
StaleExportAnswered ==
  /\ ext.lastResponse.success /\ ext.fetches = <<>>
  /\ ext.dom = currentStencilId /\ ext.selected = currentStencilId
  /\ currentExport = ext.lastResponse.data
  /\ ext.lastResponse.stencil = currentStencilId
  /\ ext.lastResponse.data.stencil # currentStencilId

\* C36: a pending batch is applied to the export it was proposed against: the
\* export of an APPLY_OPERATIONS message is the export that went out with
\* the request its operations answer.
C36_AppliedToProposedExport ==
  ext.lastApply.type = "APPLY_OPERATIONS" =>
    ext.lastApply.export = ext.lastApply.operations.export

\* A batch proposed for one stencil was sent with the export of another.
AppliedToOtherExport ==
  /\ ext.lastHandler = "applyOperations" /\ ext.lastApply.type = "APPLY_OPERATIONS"
  /\ ext.lastApply.export # NoExport
  /\ ext.lastApply.operations.export # NoExport
  /\ ext.lastApply.export # ext.lastApply.operations.export

\* A batch was sent with no export at all.
AppliedToNoExport ==
  /\ ext.lastHandler = "applyOperations" /\ ext.lastApply.type = "APPLY_OPERATIONS"
  /\ ext.lastApply.export = NoExport
  /\ ext.lastApply.operations.export # NoExport

\* C38: isLoading stays true from the click on Apply until IMPORT_COMPLETE or
\* IMPORT_ERROR is received: while the content script has an import to
\* report, isLoading is true.
C38_LoadingWhileImporting == ext.imports > 0 => ext.isLoading

\* The response of a chat or document request has cleared isLoading while an
\* import is in progress.
LoadingClearedDuringImport ==
  /\ ext.imports > 0 /\ ~ext.isLoading
  /\ ext.lastHandler \in {"sendMessage response", "handleDocumentUpload response"}

\* A chat or document request has been started while an import is in progress.
RequestStartedDuringImport ==
  /\ ext.imports > 0
  /\ ext.lastHandler \in {"sendMessage", "handleDocumentUpload"}
  /\ ext.requests # <<>> /\ ext.requests[Len(ext.requests)].id = ext.proposals

\* The click on Apply has sent a message.
ApplySent == ext.lastHandler = "applyOperations" /\ ext.lastApply.type = "APPLY_OPERATIONS"

\* The click on Apply has sent no message.
ApplyRefused == ext.lastHandler = "applyOperations" /\ ext.lastApply = NoApply

\* No list of operations has been sent twice.
SentOnce == \A i, j \in 1..Len(ext.sent) : ext.sent[i] = ext.sent[j] => i = j

\* C39: each proposed batch is sent at most once and only while it is
\* pending: a click on Apply sends APPLY_OPERATIONS only if pendingOperations
\* is a list and a Fluxx tab is known, and then it sends that list and leaves
\* pendingOperations null; pendingOperations is null after Cancel and Reject;
\* a click on Apply that finds no list sends nothing; a click on Apply that
\* finds a list and no Fluxx tab sends nothing and keeps the list pending.
C39_SentOnceWhilePending ==
  /\ SentOnce
  /\ ApplySent => /\ ext.pendingBefore # NoOperations /\ ext.fluxxTabId # Null
                  /\ ext.lastApply.operations = ext.pendingBefore
                  /\ ext.pendingOperations = NoOperations
  /\ ext.lastHandler = "hideOperationsPreview" => ext.pendingOperations = NoOperations
  /\ (ext.lastHandler = "applyOperations" /\ ext.pendingBefore = NoOperations) => ApplyRefused
  /\ ApplyRefused => ext.pendingOperations = ext.pendingBefore

\* C39 as stated: pendingOperations is null after every click on Apply,
\* Cancel or Reject.
C39_NullAfterEveryClick ==
  /\ SentOnce
  /\ ApplySent => ext.pendingBefore # NoOperations /\ ext.fluxxTabId # Null
  /\ ext.lastHandler \in {"applyOperations", "hideOperationsPreview"} =>
       ext.pendingOperations = NoOperations
  /\ (ext.lastHandler = "applyOperations" /\ ext.pendingBefore = NoOperations) => ApplyRefused

\* A second list of operations has been sent, after the first.
C39_Witness == ApplySent /\ Len(ext.sent) = 2 /\ ext.pendingOperations = NoOperations

\* A further click on Apply, with nothing proposed since the last one, has
\* sent nothing.
FurtherApplySendsNothing ==
  ApplyRefused /\ ext.pendingBefore = NoOperations /\ ext.sent # <<>> /\ ext.fluxxTabId # Null

\* A click on Apply with no Fluxx tab known has kept the list pending.
RefusedApplyKeepsList ==
  ApplyRefused /\ ext.pendingBefore # NoOperations /\ ext.pendingOperations # NoOperations

\* C37: every APPLY_OPERATIONS request the content script handles leads to
\* an IMPORT_COMPLETE or IMPORT_ERROR message, and the side panel receives
\* it and clears isLoading.
C37_EveryImportIsReported ==
  \A n \in Requests :
    /\ (n \in ext.handled) ~> (n \in ext.reported)
    /\ (n \in ext.handled) ~> (n \in ext.cleared)

\* Every request is reported unless the reload at the end of another run has
\* ended its run.
ReportedUnlessReloaded ==
  \A n \in Requests :
    (n \in ext.handled) ~> (n \in ext.cleared \/ ext.runs[n].at = "destroyed")

\* The run of a request has been ended by the reload of another run, with
\* no message sent for it.
RunEndedByReload ==
  \E n \in Requests : ext.runs[n].at = "destroyed" /\ n \notin ext.reported

\* Nothing is under way and nothing is to come, and isLoading is true.
LoadingNeverCleared ==
  /\ ext.isLoading /\ ext.applies = MaxApplies
  /\ ext.tabMessages = <<>> /\ ext.runtimeMessages = <<>>
  /\ \A n \in Requests : ext.runs[n].at \in {"returned", "destroyed"}

\* Each way through applyAndUpload has been taken and reported.
EveryPathTaken(path) == \E n \in Requests : ext.runs[n].path = path /\ n \in ext.cleared

\* Two imports are in progress in the content script at a time.
TwoImportsInProgress == ext.imports = 2

====
